---- MODULE Spec2Model ----
(***************************************************************************)
(* Verification model of the improver percentile tooling:                  *)
(*   - improver.percentile.PercentileConverter   (specification SpecPC)   *)
(*   - improver.cli.percentiles_to_realizations  (specification SpecCLI)  *)
(* Numeric results are exact rationals <<num, den>> in lowest terms.       *)
(***************************************************************************)
EXTENDS Integers, Sequences, FiniteSets, TLC

VARIABLES
    \* PercentileConverter
    pcState,        \* "new" | "ready" | "ctor_raised" | "returned" | "raised"
    collapse_coord, \* the constructor argument kept by the plugin
    cube,           \* the input cube handed to process()
    pdf_cubes,      \* the list returned by the latest process() call
    pcError,        \* the exception raised by the latest call, or "none"
    history,        \* the results of all process() calls so far, in call order
    \* percentiles_to_realizations.main
    cmd,            \* the command line, option by option
    ns,             \* the namespace parse_args returned
    cliPc,          \* the statement main is at
    cliExit,        \* "running" | "ok" | "usage_error" | "exception"
    cliError,       \* the step that failed, or "none"
    trace,          \* the calls main has completed, in order
    outWrites,      \* how many times the output file was written
    cli_cube,       \* main's cube: what was loaded, or <<>>
    result_cube,    \* main's result_cube: the input and the plugins applied to it
    saved,          \* the value handed to save_netcdf, or <<>>
    resample_calls, \* the arguments given to ResamplePercentiles, one per call
    \* EnsembleReordering
    erIn,           \* the arguments of process: both fields and the options
    erOut,          \* the fields returned by the calls made so far, in call order
    \* RebadgePercentilesAsRealizations
    rbIn,           \* the arguments of process: the field and the numbers
    rbState,        \* "new" | "returned" | "raised"
    rbOut,          \* the field returned, or NoField
    rbError,        \* the exception raised, or "none"
    \* ResamplePercentiles
    rsIn,           \* the arguments: field, count, sampling, bounds flag
    rsState,        \* "new" | "returned" | "raised"
    rsRaw,          \* the interpolated values, before the bounds policy
    rsOut,          \* the field returned, or NoField
    rsError,        \* the exception raised, or "none"
    rsWarned,       \* whether a bounds warning was issued
    \* CorrectLandSeaMask
    lsmIn,          \* the land mask values as passed to process
    lsmData,        \* standard_landmask.data, changed in place
    lsmState,       \* "new" | "returned"
    \* GenerateOrographyBandAncils.gen_orography_masks
    orogIn,         \* the arguments: orography, landmask, key, thresholds
    orogState,      \* "new" | "returned" | "raised"
    orogOut,        \* the masked array of the cube returned, or NoMaskData
    orogError,      \* the exception raised, or "none"
    \* GenerateOrographyBandAncils.process
    procIn,         \* the arguments: the fields and thresholds_dict
    procOrder,      \* the order in which the dictionary was iterated
    procState,      \* "new" | "returned" | "raised"
    procOut,        \* the cube list returned, or NoCubeList
    procError,      \* the exception raised, or "none"
    \* the functions of argparser called on their own
    fnIn,           \* the function called and its arguments
    fnState,        \* "new" | "returned" | "raised"
    fnOut,          \* the value returned or the exception raised
    \* ArgParser
    apRegistry,     \* ArgParser.CENTRALIZED_ARGUMENTS as it is now
    apCompulsory,   \* ArgParser.COMPULSORY_ARGUMENTS as it is now
    apIn,           \* the arguments of the latest construction
    apGroups,       \* the caller's exclusive_groups list after that call
    apParser,       \* the arguments added to the parser, in order
    apState,        \* "none" | "built" | "raised" | "parsed"
    apError,        \* the exception the constructor raised, or "none"
    apBuilds,       \* the number of constructions so far
    apCmd,          \* the profiling options given to parse_args
    apHook,         \* whether profile_hook_enable was called, and with what
    \* DiscreteDifferenceBetweenAdjacentGridSquares
    ddIn,           \* the cube given to process
    ddState,        \* "new" | "returned" | "raised"
    ddOut           \* the cubes returned or the exception raised

pcVars == <<pcState, collapse_coord, cube, pdf_cubes, pcError, history>>

cliVars == <<cmd, ns, cliPc, cliExit, cliError, trace, outWrites,
            cli_cube, result_cube, saved, resample_calls>>

erVars == <<erIn, erOut>>

rbVars == <<rbIn, rbState, rbOut, rbError>>

rsVars == <<rsIn, rsState, rsRaw, rsOut, rsError, rsWarned>>

lsmVars == <<lsmIn, lsmData, lsmState>>

orogVars == <<orogIn, orogState, orogOut, orogError>>

procVars == <<procIn, procOrder, procState, procOut, procError>>

fnVars == <<fnIn, fnState, fnOut>>

apVars == <<apRegistry, apCompulsory, apIn, apGroups, apParser, apState, apError, apBuilds, apCmd, apHook>>

ddVars == <<ddIn, ddState, ddOut>>

vars == <<pcVars, cliVars, erVars, rbVars, rsVars, lsmVars, orogVars, procVars, fnVars, apVars, ddVars>>

---------------------------------------------------------------------------
\* Bounds of the model.

\* largest number of members along the realization axis
MaxMembers == 4
\* member values at the first grid point are 0, 12, .., 12 * MaxVal
MaxVal == 3
\* number of process() calls made on one plugin
MaxCalls == 2

---------------------------------------------------------------------------
\* Exact arithmetic helpers.

Abs(i) == IF i < 0 THEN -i ELSE i

RECURSIVE Gcd(_, _)
Gcd(a, b) == IF b = 0 THEN a ELSE Gcd(b, a % b)

\* the rational num/den in lowest terms, den > 0
Rat(num, den) ==
    LET g == Gcd(Abs(num), Abs(den))
        s == IF den < 0 THEN -1 ELSE 1
    IN  <<(s * num) \div g, (s * den) \div g>>

Min2(a, b) == IF a < b THEN a ELSE b
Max2(a, b) == IF a > b THEN a ELSE b
Clip(x, lo, hi) == Min2(Max2(x, lo), hi)

RECURSIVE SumSeq(_)
SumSeq(s) == IF s = <<>> THEN 0 ELSE Head(s) + SumSeq(Tail(s))

\* insertion of x into an ascending sequence
RECURSIVE Insert(_, _)
Insert(x, s) ==
    IF s = <<>> THEN <<x>>
    ELSE IF x <= Head(s) THEN <<x>> \o s
    ELSE <<Head(s)>> \o Insert(x, Tail(s))

\* np.sort: the values of s in ascending order
RECURSIVE Sort(_)
Sort(s) == IF s = <<>> THEN <<>> ELSE Insert(Head(s), Sort(Tail(s)))

---------------------------------------------------------------------------
\* The cubes.

Points == {"y0x0", "y0x1"}
Values == {12 * i : i \in 0..MaxVal}

\* the non-ensemble dimensions of the test cube
GridDims == <<"latitude", "longitude">>

\* np.arange(36).reshape(3, 3, 4): along longitude the values go up by one
Offset == [pt \in Points |-> IF pt = "y0x0" THEN 0 ELSE 1]

\* A cube: its dimension names in order and, at each grid point, the values
\* along the leading (realization) dimension.  The cubes are laid out as the
\* test cube is, with any member values at the first point.
InputCubes ==
    UNION {{[dims |-> <<"realization">> \o GridDims,
             data |-> [pt \in Points |-> [r \in 1..n |-> base[r] + Offset[pt]]]] :
                base \in [1..n -> Values]} : n \in 1..MaxMembers}

\* The constructor arguments tried: a coordinate name on the cube, a name that
\* is on no cube, a Coord object, a list of names, a one-name list, None.
CoordArgs ==
    {[kind |-> "str",   names |-> <<"realization">>],
     [kind |-> "str",   names |-> <<"height">>],
     [kind |-> "coord", names |-> <<"realization">>],
     [kind |-> "list",  names |-> <<"latitude", "longitude">>],
     [kind |-> "list",  names |-> <<"realization">>],
     [kind |-> "none",  names |-> <<>>]}

NoArg == [kind |-> "unset", names |-> <<>>]

\* the deciles only
PERCENTILES_Deciles == <<10, 20, 30, 40, 50, 60, 70, 80, 90>>

\* PercentileConverter.PERCENTILES
PERCENTILES == <<5, 10, 20, 25, 30, 40, 50, 60, 70, 75, 80, 90, 95>>

---------------------------------------------------------------------------
\* iris.analysis aggregators, applied to the member values at one point.

\* the lower order statistic, without interpolation
Quantile_Lower(x, percent) ==
    Rat(x[((percent * (Len(x) - 1)) \div 100) + 1], 1)

\* scipy.stats.mstats.mquantiles with alphap = betap = 1, as iris PERCENTILE
\* calls it: x is the sorted data, percent the percentage point.  In
\* hundredths: aleph = n*p + m with p = percent/100 and m = 1 - p.
Quantile(x, percent) ==
    LET n      == Len(x)
        aleph  == percent * n + (100 - percent)
        k      == Clip(aleph, 100, (n - 1) * 100) \div 100
        gamma  == Clip(aleph - 100 * k, 0, 100)
    IN  IF n = 1 THEN Rat(x[1], 1)
        ELSE Rat((100 - gamma) * x[k] + gamma * x[k + 1], 100)

PercentileAgg(vals, percents) ==
    [i \in 1..Len(percents) |-> Quantile(Sort(vals), percents[i])]

MinAgg(vals) ==
    Rat(CHOOSE v \in {vals[i] : i \in 1..Len(vals)} :
            \A j \in 1..Len(vals) : v <= vals[j], 1)

MaxAgg(vals) ==
    Rat(CHOOSE v \in {vals[i] : i \in 1..Len(vals)} :
            \A j \in 1..Len(vals) : v >= vals[j], 1)

\* the mid-range instead of the mean
MeanAgg_MidRange(vals) == Rat(Sort(vals)[1] + Sort(vals)[Len(vals)], 2)

MeanAgg(vals) == Rat(SumSeq(vals), Len(vals))

\* numpy std with ddof = 1: sqrt(sum((x - mean)^2) / (n - 1)); the value is
\* kept as the radicand, and is NaN for a single member (0/0).
StdDevAgg(vals) ==
    LET n   == Len(vals)
        s   == SumSeq(vals)
        dev == [i \in 1..n |-> (n * vals[i] - s) * (n * vals[i] - s)]
    IN  IF n - 1 = 0 THEN <<"nan">>
        ELSE <<"sqrt", Rat(SumSeq(dev), n * n * (n - 1))>>

Aggregate(agg, vals) ==
    CASE agg = "PERCENTILE" -> PercentileAgg(vals, PERCENTILES)
      [] agg = "MIN"        -> MinAgg(vals)
      [] agg = "MAX"        -> MaxAgg(vals)
      [] agg = "MEAN"       -> MeanAgg(vals)
      [] agg = "STD_DEV"    -> StdDevAgg(vals)

\* the dimensions left once coord is collapsed
RECURSIVE WithoutDim(_, _)
WithoutDim(dims, coord) ==
    IF dims = <<>> THEN <<>>
    ELSE IF Head(dims) = coord THEN Tail(dims)
    ELSE <<Head(dims)>> \o WithoutDim(Tail(dims), coord)

HasCoord(c, coord) == \E i \in 1..Len(c.dims) : c.dims[i] = coord

\* cube.collapsed(coord, aggregator): a new cube without the collapsed
\* dimension; PERCENTILE with several percentage points adds a leading
\* percentile dimension carrying those points.
Collapsed(c, coord, agg) ==
    [aggregator |-> agg,
     dims       |-> IF agg = "PERCENTILE"
                    THEN <<"percentile_over_" \o coord>> \o WithoutDim(c.dims, coord)
                    ELSE WithoutDim(c.dims, coord),
     points     |-> IF agg = "PERCENTILE" THEN PERCENTILES ELSE <<>>,
     data       |-> [pt \in Points |-> Aggregate(agg, c.data[pt])]]

---------------------------------------------------------------------------
\* PercentileConverter

\* also takes a list that holds one name
SpecifiesSingleCoord_OneName(arg) ==
    arg.kind \in {"str", "coord"} \/ (arg.kind = "list" /\ Len(arg.names) = 1)

\* __init__: isinstance(collapse_coord, (basestring, iris.coords.Coord))
SpecifiesSingleCoord(arg) == arg.kind \in {"str", "coord"}

\* process_percentiles
process_percentiles(c, coord) == Collapsed(c, coord, "PERCENTILE")

\* the appends of MIN and MAX exchanged
ProcessCubes_Swapped(c, coord) ==
    <<process_percentiles(c, coord),
      Collapsed(c, coord, "MAX"),
      Collapsed(c, coord, "MIN"),
      Collapsed(c, coord, "MEAN"),
      Collapsed(c, coord, "STD_DEV")>>

\* process: the CubeList built by the five appends
ProcessCubes(c, coord) ==
    <<process_percentiles(c, coord),
      Collapsed(c, coord, "MIN"),
      Collapsed(c, coord, "MAX"),
      Collapsed(c, coord, "MEAN"),
      Collapsed(c, coord, "STD_DEV")>>

\* the data sorted in place along the collapsed dimension
CubeAfterProcess_SortedInPlace(c) ==
    [c EXCEPT !.data = [pt \in Points |-> Sort(c.data[pt])]]

\* process reads the cube and never assigns to it
CubeAfterProcess(c) == c

PCInit ==
    /\ pcState = "new"
    /\ collapse_coord = NoArg
    /\ cube \in InputCubes
    /\ pdf_cubes = <<>>
    /\ pcError = "none"
    /\ history = <<>>

\* the plugin is not in use
PCIdle ==
    /\ pcState = "idle"
    /\ collapse_coord = NoArg
    /\ cube = [dims |-> <<"realization">> \o GridDims,
               data |-> [pt \in Points |-> <<0>>]]
    /\ pdf_cubes = <<>>
    /\ pcError = "none"
    /\ history = <<>>

PCFrame == UNCHANGED <<cliVars, erVars, rbVars, rsVars, lsmVars, orogVars, procVars, fnVars, apVars, ddVars>>

\* PercentileConverter(collapse_coord)
Construct ==
    /\ pcState = "new"
    /\ \E arg \in CoordArgs :
        /\ collapse_coord' = arg
        /\ pcState' = IF SpecifiesSingleCoord(arg) THEN "ready" ELSE "ctor_raised"
        /\ pcError' = IF SpecifiesSingleCoord(arg) THEN "none" ELSE "ValueError"
    /\ UNCHANGED <<cube, pdf_cubes, history>>
    /\ PCFrame

\* plugin.process(cube); collapsed() raises CoordinateNotFoundError when the
\* cube has no such coordinate, and then nothing is returned
Process ==
    /\ pcState \in {"ready", "returned", "raised"}
    /\ Len(history) < MaxCalls
    /\ LET coord == collapse_coord.names[1]
       IN  IF HasCoord(cube, coord)
           THEN /\ pdf_cubes' = ProcessCubes(cube, coord)
                /\ pcState' = "returned"
                /\ pcError' = "none"
           ELSE /\ pdf_cubes' = <<>>
                /\ pcState' = "raised"
                /\ pcError' = "CoordinateNotFoundError"
    /\ history' = Append(history, pdf_cubes')
    /\ cube' = CubeAfterProcess(cube)
    /\ UNCHANGED collapse_coord
    /\ PCFrame

PCNext == Construct \/ Process

---------------------------------------------------------------------------
\* percentiles_to_realizations.main

\* an option that was not given / that was given with a value
NoStr == [some |-> FALSE, val |-> ""]
Str(v) == [some |-> TRUE, val |-> v]
NoList == [some |-> FALSE, val |-> <<>>]
List(v) == [some |-> TRUE, val |-> v]
NoInt == [some |-> FALSE, val |-> 0]
Int_(v) == [some |-> TRUE, val |-> v]

\* The command lines tried: every combination of the options of main.
CommandLines ==
    [reordering            : BOOLEAN,
     rebadging             : BOOLEAN,
     raw_forecast_filepath : {NoStr, Str("raw.nc")},
     random_ordering       : BOOLEAN,
     random_seed           : {NoStr, Str("0")},
     realization_numbers   : {NoList, List(<<"10", "11">>), List(<<"x">>)},
     no_of_percentiles     : {NoStr, Str("3"), Str("x")},
     sampling_method       : {NoStr, Str("quantile"), Str("random"), Str("bogus")},
     ecc_bounds_warning    : BOOLEAN]

\* int(): the tokens that are integer literals
IsIntLiteral(tok) == tok \in {"0", "3", "10", "11"}
IntOf(tok) ==
    CASE tok = "0" -> 0 [] tok = "3" -> 3 [] tok = "10" -> 10 [] tok = "11" -> 11

\* the mutually exclusive group is not required
MutexGroupError_NotRequired(c) == c.reordering /\ c.rebadging

\* add_mutually_exclusive_group(required=True) holding --reordering and
\* --rebadging: argparse reports both flags, and neither flag, as an error
MutexGroupError(c) ==
    \/ c.reordering /\ c.rebadging
    \/ ~c.reordering /\ ~c.rebadging

\* type=int of --no_of_percentiles and choices of --sampling_method
ValueError_(c) ==
    \/ c.no_of_percentiles.some /\ ~IsIntLiteral(c.no_of_percentiles.val)
    \/ c.sampling_method.some /\ c.sampling_method.val \notin {"quantile", "random"}

\* the namespace of a command line that parses: defaults filled in
Namespace(c) ==
    [reordering            |-> c.reordering,
     rebadging             |-> c.rebadging,
     raw_forecast_filepath |-> c.raw_forecast_filepath,
     random_ordering       |-> c.random_ordering,
     random_seed           |-> c.random_seed,
     realization_numbers   |-> c.realization_numbers,
     no_of_percentiles     |-> IF c.no_of_percentiles.some
                               THEN Int_(IntOf(c.no_of_percentiles.val)) ELSE NoInt,
     sampling_method       |-> IF c.sampling_method.some
                               THEN c.sampling_method.val ELSE "quantile",
     ecc_bounds_warning    |-> c.ecc_bounds_warning]

NoNamespace == Namespace([reordering |-> FALSE, rebadging |-> FALSE,
    raw_forecast_filepath |-> NoStr, random_ordering |-> FALSE,
    random_seed |-> NoStr, realization_numbers |-> NoList,
    no_of_percentiles |-> NoStr, sampling_method |-> NoStr,
    ecc_bounds_warning |-> FALSE])

\* "CLI argument checking": the two wrong_args_error calls
WrongArgs(a) ==
    \/ a.reordering /\ a.realization_numbers.some
    \/ a.rebadging /\ (a.raw_forecast_filepath.some \/ a.random_ordering)

\* load_cube(path) cannot succeed without a path
LoadMayPass(path) == path.some

\* the failure is swallowed and main goes on to save
AfterFailure_GoesOnToSave(step) == "save"

\* an exception raised in main is not caught there, and parser.error exits:
\* either ends the run
AfterFailure(step) == "done"

\* the resampled cube is saved as it is
AfterResample_Skip(a) == "save"

\* the step that follows ResamplePercentiles.process
AfterResample(a) ==
    IF a.reordering THEN "load_raw"
    ELSE IF a.rebadging THEN "convert_numbers"
    ELSE "save"

CLIInit ==
    /\ cmd \in CommandLines
    /\ ns = NoNamespace
    /\ cliPc = "parse_args"
    /\ cliExit = "running"
    /\ cliError = "none"
    /\ trace = <<>>
    /\ outWrites = 0
    /\ cli_cube = <<>>
    /\ result_cube = <<>>
    /\ saved = <<>>
    /\ resample_calls = <<>>

\* main is not running
CLIIdle ==
    /\ cmd = [reordering |-> FALSE, rebadging |-> FALSE,
              raw_forecast_filepath |-> NoStr, random_ordering |-> FALSE,
              random_seed |-> NoStr, realization_numbers |-> NoList,
              no_of_percentiles |-> NoStr, sampling_method |-> NoStr,
              ecc_bounds_warning |-> FALSE]
    /\ ns = NoNamespace
    /\ cliPc = "idle"
    /\ cliExit = "running"
    /\ cliError = "none"
    /\ trace = <<>>
    /\ outWrites = 0
    /\ cli_cube = <<>>
    /\ result_cube = <<>>
    /\ saved = <<>>
    /\ resample_calls = <<>>

CLIFrame == UNCHANGED <<pcVars, erVars, rbVars, rsVars, lsmVars, orogVars, procVars, fnVars, apVars, ddVars>>

\* a step of main raised, or the parser reported an error and exited
Fail(step, exit) ==
    /\ cliPc' = AfterFailure(step)
    /\ cliExit' = exit
    /\ cliError' = step

\* a call of main returned
Pass(step, next) ==
    /\ cliPc' = next
    /\ trace' = Append(trace, step)
    /\ UNCHANGED <<cliExit, cliError>>

\* args = parser.parse_args(args=argv)
ParseArgs ==
    /\ cliPc = "parse_args"
    /\ IF MutexGroupError(cmd) \/ ValueError_(cmd)
       THEN /\ Fail("parse_args", "usage_error")
            /\ UNCHANGED <<ns, trace>>
       ELSE /\ ns' = Namespace(cmd)
            /\ cliPc' = "check_args"
            /\ UNCHANGED <<cliExit, cliError, trace>>
    /\ UNCHANGED <<cmd, outWrites>>
    /\ UNCHANGED <<cli_cube, result_cube, saved>>
    /\ UNCHANGED resample_calls
    /\ CLIFrame

\* the checks on options of the opposite method
CheckArgs ==
    /\ cliPc = "check_args"
    /\ IF WrongArgs(ns)
       THEN Fail("check_args", "usage_error")
       ELSE /\ cliPc' = "load_input"
            /\ UNCHANGED <<cliExit, cliError>>
    /\ UNCHANGED <<cmd, ns, trace, outWrites>>
    /\ UNCHANGED <<cli_cube, result_cube, saved>>
    /\ UNCHANGED resample_calls
    /\ CLIFrame

\* cube = load_cube(args.input_filepath)
LoadInput ==
    /\ cliPc = "load_input"
    /\ \/ Pass("load_input", "resample") /\ cli_cube' = <<"input">>
       \/ Fail("load_input", "exception") /\ UNCHANGED <<trace, cli_cube>>
    /\ UNCHANGED <<cmd, ns, outWrites>>
    /\ UNCHANGED <<result_cube, saved>>
    /\ UNCHANGED resample_calls
    /\ CLIFrame

\* every call is made with the default sampling method
ResampleArgs_DefaultSampling(a) ==
    [ecc_bounds_warning |-> a.ecc_bounds_warning,
     no_of_percentiles  |-> a.no_of_percentiles,
     sampling           |-> "quantile"]

\* the arguments main gives to ResamplePercentiles and to its process
ResampleArgs(a) ==
    [ecc_bounds_warning |-> a.ecc_bounds_warning,
     no_of_percentiles  |-> a.no_of_percentiles,
     sampling           |-> a.sampling_method]

\* result_cube = ResamplePercentiles(...).process(cube, ...)
Resample ==
    /\ cliPc = "resample"
    /\ resample_calls' = Append(resample_calls, ResampleArgs(ns))
    /\ \/ /\ Pass("resample", AfterResample(ns))
          /\ result_cube' = Append(cli_cube, "ResamplePercentiles")
       \/ Fail("resample", "exception") /\ UNCHANGED <<trace, result_cube>>
    /\ UNCHANGED <<cmd, ns, outWrites>>
    /\ UNCHANGED <<cli_cube, saved>>
    /\ CLIFrame

\* raw_forecast = load_cube(args.raw_forecast_filepath)
LoadRaw ==
    /\ cliPc = "load_raw"
    /\ \/ LoadMayPass(ns.raw_forecast_filepath) /\ Pass("load_raw", "reorder")
       \/ Fail("load_raw", "exception") /\ UNCHANGED trace
    /\ UNCHANGED <<cmd, ns, outWrites>>
    /\ UNCHANGED <<cli_cube, result_cube, saved>>
    /\ UNCHANGED resample_calls
    /\ CLIFrame

\* result_cube = EnsembleReordering().process(result_cube, raw_forecast, ...)
Reorder ==
    /\ cliPc = "reorder"
    /\ \/ /\ Pass("reorder", "save")
          /\ result_cube' = Append(result_cube, "EnsembleReordering")
       \/ Fail("reorder", "exception") /\ UNCHANGED <<trace, result_cube>>
    /\ UNCHANGED <<cmd, ns, outWrites>>
    /\ UNCHANGED <<cli_cube, saved>>
    /\ UNCHANGED resample_calls
    /\ CLIFrame

\* args.realization_numbers = [int(num) for num in args.realization_numbers]
ConvertNumbers ==
    /\ cliPc = "convert_numbers"
    /\ IF ns.realization_numbers.some
          /\ \E i \in 1..Len(ns.realization_numbers.val) :
                 ~IsIntLiteral(ns.realization_numbers.val[i])
       THEN Fail("convert_numbers", "exception")
       ELSE /\ cliPc' = "rebadge"
            /\ UNCHANGED <<cliExit, cliError>>
    /\ UNCHANGED <<cmd, ns, trace, outWrites>>
    /\ UNCHANGED <<cli_cube, result_cube, saved>>
    /\ UNCHANGED resample_calls
    /\ CLIFrame

\* result_cube = RebadgePercentilesAsRealizations().process(result_cube, ...)
Rebadge ==
    /\ cliPc = "rebadge"
    /\ \/ /\ Pass("rebadge", "save")
          /\ result_cube' = Append(result_cube, "RebadgePercentilesAsRealizations")
       \/ Fail("rebadge", "exception") /\ UNCHANGED <<trace, result_cube>>
    /\ UNCHANGED <<cmd, ns, outWrites>>
    /\ UNCHANGED <<cli_cube, saved>>
    /\ UNCHANGED resample_calls
    /\ CLIFrame

\* save_netcdf(result_cube, args.output_filepath), the last statement
Save ==
    /\ cliPc = "save"
    /\ outWrites' = outWrites + 1
    /\ trace' = Append(trace, "save")
    /\ cliPc' = "done"
    /\ cliExit' = "ok"
    /\ saved' = result_cube
    /\ UNCHANGED <<cmd, ns, cliError, cli_cube, result_cube>>
    /\ UNCHANGED resample_calls
    /\ CLIFrame

CLINext ==
    \/ ParseArgs \/ CheckArgs \/ LoadInput \/ Resample
    \/ LoadRaw \/ Reorder \/ ConvertNumbers \/ Rebadge \/ Save

---------------------------------------------------------------------------
\* EnsembleReordering (spec section 4.4)

\* largest number of members of the two fields
ErMembers == 3

\* the values of the raw members and of the post-processed members
RawValues == {1, 3, 5}
PostValues == {10, 20, 30}

\* the seeds a caller may pass, and the states an unseeded generator may be in
Seeds == {1}
Entropy == {0, 1, 2}

Reverse(s) == [i \in 1..Len(s) |-> s[Len(s) + 1 - i]]

\* Two fields over the same grid with the same number of members: the raw
\* forecast and the post-processed pseudo-realizations.
ErFields ==
    UNION {{[raw  |-> [pt \in Points |-> IF pt = "y0x0" THEN r ELSE Reverse(r)],
             post |-> [pt \in Points |-> [m \in 1..n |-> q[m] + Offset[pt]]]] :
                r \in [1..n -> RawValues], q \in [1..n -> PostValues]} :
           n \in 1..ErMembers}

ErInputs ==
    {[raw |-> f.raw, post |-> f.post, random_ordering |-> ro, random_seed |-> sd] :
        f \in ErFields, ro \in BOOLEAN,
        sd \in {NoInt} \cup {Int_(x) : x \in Seeds}}

\* the j-th number drawn from a generator started in state x
RECURSIVE Draw(_, _)
Draw(x, j) == IF j = 0 THEN x ELSE Draw((3 * x + 1) % 7, j - 1)

\* the member indexes i..Len(key) in ascending order of key, equal keys in
\* index order
RECURSIVE InsertIndex(_, _, _)
InsertIndex(i, s, key) ==
    IF s = <<>> THEN <<i>>
    ELSE IF key[i] <= key[Head(s)] THEN <<i>> \o s
    ELSE <<Head(s)>> \o InsertIndex(i, Tail(s), key)

\* equal keys in reverse index order
RECURSIVE ArgsortFrom_Unstable(_, _)
ArgsortFrom_Unstable(i, key) ==
    IF i > Len(key) THEN <<>>
    ELSE LET rest == ArgsortFrom_Unstable(i + 1, key)
             less == SelectSeq(rest, LAMBDA j : key[j] <= key[i])
             more == SelectSeq(rest, LAMBDA j : key[j] > key[i])
         IN  less \o <<i>> \o more

\* the member indexes from i on in ascending order of key (a stable sort)
RECURSIVE ArgsortFrom(_, _)
ArgsortFrom(i, key) ==
    IF i > Len(key) THEN <<>>
    ELSE InsertIndex(i, ArgsortFrom(i + 1, key), key)

\* step 1: the member slots from lowest to highest raw rank; with
\* random_ordering the ranking is that of numbers drawn from the generator
RankOrder(raw, ptIndex, random_ordering, state) ==
    IF random_ordering
    THEN ArgsortFrom(1, [m \in 1..Len(raw) |->
                            Draw(state, ptIndex * Len(raw) + m)])
    ELSE ArgsortFrom(1, raw)

\* the lowest post-processed value is used for every slot
ReorderPoint_Lowest(post, order) == [m \in 1..Len(post) |-> Sort(post)[1]]

\* steps 2 and 3: the sorted post-processed values, the i-th given to the
\* slot of raw rank i
ReorderPoint(post, order) ==
    LET sorted_values == Sort(post)
    IN  [m \in 1..Len(post) |->
            sorted_values[CHOOSE i \in 1..Len(order) : order[i] = m]]

PointIndex(pt) == Offset[pt]

\* EnsembleReordering().process(post_processed, raw_forecast, ...)
EnsembleReorder(in, state) ==
    [pt \in Points |->
        ReorderPoint(in.post[pt],
                     RankOrder(in.raw[pt], PointIndex(pt),
                               in.random_ordering, state))]

\* the seed is ignored
GeneratorStates_Unseeded(in) == Entropy

\* the states the random generator can start in: fixed by random_seed when
\* one is given
GeneratorStates(in) ==
    IF in.random_seed.some THEN {in.random_seed.val} ELSE Entropy

ERInit ==
    /\ erIn \in ErInputs
    /\ erOut = <<>>

\* EnsembleReordering is not in use
ERIdle ==
    /\ erIn = [raw |-> [pt \in Points |-> <<1>>], post |-> [pt \in Points |-> <<10>>],
               random_ordering |-> FALSE, random_seed |-> NoInt]
    /\ erOut = <<>>

ERFrame == UNCHANGED <<pcVars, cliVars, rbVars, rsVars, lsmVars, orogVars, procVars, fnVars, apVars, ddVars>>

\* one call of process on the inputs; two calls are made
ReorderCall ==
    /\ Len(erOut) < 2
    /\ \E state \in GeneratorStates(erIn) :
          erOut' = Append(erOut, EnsembleReorder(erIn, state))
    /\ UNCHANGED erIn
    /\ ERFrame

ERNext == ReorderCall

---------------------------------------------------------------------------
\* RebadgePercentilesAsRealizations (spec section 4.3)

\* largest number of slices along the percentile axis
RbMembers == 3

\* the percentile values an axis may carry
PercentileChoices == {10, 25, 50, 75, 90}

\* the ascending sequence of the elements of a set of numbers
RECURSIVE Ascending(_)
Ascending(S) ==
    IF S = {} THEN <<>>
    ELSE LET lo == CHOOSE x \in S : \A y \in S : x <= y
         IN  <<lo>> \o Ascending(S \ {lo})

\* A field along a percentile axis: the axis values, unique and ascending,
\* and at each grid point the values along that axis.
PercentileFields ==
    UNION {{[axis  |-> "percentile",
             coord |-> Ascending(ps),
             data  |-> [pt \in Points |-> [m \in 1..n |-> q[m] + Offset[pt]]]] :
                ps \in {S \in SUBSET PercentileChoices : Cardinality(S) = n},
                q \in [1..n -> PostValues]} :
           n \in 1..RbMembers}

\* the realization_numbers arguments tried: none, and lists of 1 to
\* RbMembers + 1 numbers
NumberLists ==
    {NoList} \cup {List([i \in 1..k |-> 9 + i]) : k \in 1..(RbMembers + 1)}
             \cup {List([i \in 1..k |-> k - i]) : k \in 1..(RbMembers + 1)}

NoField == [axis |-> "none", coord |-> <<>>, data |-> [pt \in Points |-> <<>>]]

\* a longer list is accepted
CountMismatch_ShortOnly(field, numbers) ==
    numbers.some /\ Len(numbers.val) < Len(field.coord)

\* the supplied list must have one number per slice of the percentile axis
CountMismatch(field, numbers) ==
    numbers.some /\ Len(numbers.val) # Len(field.coord)

\* the members numbered from 1
DefaultNumbers_FromOne(n) == [i \in 1..n |-> i]

\* the default realization numbers 0..n-1
DefaultNumbers(n) == [i \in 1..n |-> i - 1]

\* process: the axis renamed and renumbered, the data as they were
RebadgeField(field, numbers) ==
    [axis  |-> "realization",
     coord |-> IF numbers.some
               THEN [i \in 1..Len(field.coord) |-> numbers.val[i]]
               ELSE DefaultNumbers(Len(field.coord)),
     data  |-> field.data]

RBInit ==
    /\ rbIn \in [field : PercentileFields, realization_numbers : NumberLists]
    /\ rbState = "new"
    /\ rbOut = NoField
    /\ rbError = "none"

\* the plugin is not in use
RBIdle ==
    /\ rbIn = [field |-> NoField, realization_numbers |-> NoList]
    /\ rbState = "idle"
    /\ rbOut = NoField
    /\ rbError = "none"

RBFrame == UNCHANGED <<pcVars, cliVars, erVars, rsVars, lsmVars, orogVars, procVars, fnVars, apVars, ddVars>>

\* RebadgePercentilesAsRealizations().process(field, realization_numbers)
RebadgeCall ==
    /\ rbState = "new"
    /\ IF CountMismatch(rbIn.field, rbIn.realization_numbers)
       THEN /\ rbState' = "raised"
            /\ rbError' = "ValueError"
            /\ rbOut' = NoField
       ELSE /\ rbState' = "returned"
            /\ rbError' = "none"
            /\ rbOut' = RebadgeField(rbIn.field, rbIn.realization_numbers)
    /\ UNCHANGED rbIn
    /\ RBFrame

RBNext == RebadgeCall

---------------------------------------------------------------------------
\* ResamplePercentiles (spec section 4.2)

\* largest number of values on the input percentile axis
RsMembers == 3

\* largest count_of_percentiles requested
RsCount == 3

\* the percentile values an input axis may carry, and the values of the field
RsPercentiles == {10, 25, 75, 90}
RsValues == {-20, 40, 120}

\* the physically valid range of the quantity (a percentage)
ValidBounds == [lo |-> 0, hi |-> 100]

\* the percentiles a random draw may give
RandomChoices == {20, 60}

\* the value sequences of a percentile curve: non-decreasing along the axis
PercentileCurves(n) ==
    {q \in [1..n -> RsValues] : \A i \in 1..(n - 1) : q[i] <= q[i + 1]}

RsFields ==
    UNION {{[axis  |-> "percentile",
             coord |-> Ascending(ps),
             data  |-> d] :
                ps \in {S \in SUBSET RsPercentiles : Cardinality(S) = n},
                d \in [Points -> PercentileCurves(n)]} :
           n \in 1..RsMembers}

RsArgs ==
    [field                : RsFields,
     count_of_percentiles : {NoInt} \cup {Int_(c) : c \in 1..RsCount},
     sampling             : {"quantile", "random"},
     ecc_bounds_warning   : BOOLEAN]

NoData == [pt \in Points |-> <<>>]

\* a < b for rationals with positive denominators
RatLess(a, b) == a[1] * b[2] < b[1] * a[2]

\* the number of target percentiles
TargetCount(args) ==
    IF args.count_of_percentiles.some
    THEN args.count_of_percentiles.val
    ELSE Len(args.field.coord)

\* the block edges k/(n+1)
QuantileTargets_Edges(n) == [k \in 1..n |-> Rat(100 * k, n + 1)]

\* quantile sampling: the centres of n equal-probability blocks
QuantileTargets(n) == [k \in 1..n |-> Rat(100 * (2 * (k - 1) + 1), 2 * n)]

\* the target percentiles process may use
Targets(args) ==
    IF args.sampling = "quantile"
    THEN {QuantileTargets(TargetCount(args))}
    ELSE {[k \in 1..TargetCount(args) |-> Rat(r[k], 1)] :
             r \in [1..TargetCount(args) -> RandomChoices]}

\* piecewise-linear interpolation of the curve (p, v) at percentile t,
\* clamped to the end values outside the range of p
Interpolate(p, v, t) ==
    LET n == Len(p)
    IN  IF ~RatLess(<<p[1], 1>>, t) THEN Rat(v[1], 1)
        ELSE IF ~RatLess(t, <<p[n], 1>>) THEN Rat(v[n], 1)
        ELSE LET i  == CHOOSE j \in 1..(n - 1) :
                           /\ ~RatLess(t, <<p[j], 1>>)
                           /\ RatLess(t, <<p[j + 1], 1>>)
                 dp == p[i + 1] - p[i]
                 dv == v[i + 1] - v[i]
             IN  Rat(v[i] * t[2] * dp + dv * (t[1] - p[i] * t[2]), t[2] * dp)

InterpolatePercentiles(field, targets) ==
    [pt \in Points |->
        [k \in 1..Len(targets) |->
            Interpolate(field.coord, field.data[pt], targets[k])]]

OutOfBounds(x) ==
    \/ RatLess(x, <<ValidBounds.lo, 1>>)
    \/ RatLess(<<ValidBounds.hi, 1>>, x)

AnyOutOfBounds(data) ==
    \E pt \in Points : \E k \in 1..Len(data[pt]) : OutOfBounds(data[pt][k])

\* only the upper bound is enforced
ClipToBounds_UpperOnly(x) ==
    IF RatLess(<<ValidBounds.hi, 1>>, x) THEN <<ValidBounds.hi, 1>> ELSE x

\* the nearest valid bound for a value outside the range, else the value
ClipToBounds(x) ==
    IF RatLess(x, <<ValidBounds.lo, 1>>) THEN <<ValidBounds.lo, 1>>
    ELSE IF RatLess(<<ValidBounds.hi, 1>>, x) THEN <<ValidBounds.hi, 1>>
    ELSE x

ApplyBounds(data) ==
    [pt \in Points |-> [k \in 1..Len(data[pt]) |-> ClipToBounds(data[pt][k])]]

RSInit ==
    /\ rsIn \in RsArgs
    /\ rsState = "new"
    /\ rsRaw = NoData
    /\ rsOut = NoField
    /\ rsError = "none"
    /\ rsWarned = FALSE

\* the plugin is not in use
RSIdle ==
    /\ rsIn = [field |-> NoField, count_of_percentiles |-> NoInt,
               sampling |-> "quantile", ecc_bounds_warning |-> FALSE]
    /\ rsState = "idle"
    /\ rsRaw = NoData
    /\ rsOut = NoField
    /\ rsError = "none"
    /\ rsWarned = FALSE

RSFrame == UNCHANGED <<pcVars, cliVars, erVars, rbVars, lsmVars, orogVars, procVars, fnVars, apVars, ddVars>>

\* ResamplePercentiles(ecc_bounds_warning).process(field, count, sampling)
ResampleCall ==
    /\ rsState = "new"
    /\ IF Len(rsIn.field.coord) < 2
       THEN /\ rsState' = "raised"
            /\ rsError' = "InvalidCubeError"
            /\ rsRaw' = NoData
            /\ rsOut' = NoField
            /\ rsWarned' = FALSE
       ELSE \E targets \in Targets(rsIn) :
              LET raw == InterpolatePercentiles(rsIn.field, targets)
              IN  /\ rsRaw' = raw
                  /\ IF AnyOutOfBounds(raw) /\ ~rsIn.ecc_bounds_warning
                     THEN /\ rsState' = "raised"
                          /\ rsError' = "ValueError"
                          /\ rsOut' = NoField
                          /\ rsWarned' = FALSE
                     ELSE /\ rsState' = "returned"
                          /\ rsError' = "none"
                          /\ rsOut' = [axis  |-> "percentile",
                                       coord |-> targets,
                                       data  |-> ApplyBounds(raw)]
                          /\ rsWarned' = AnyOutOfBounds(raw)
    /\ UNCHANGED rsIn
    /\ RSFrame

RSNext == ResampleCall

---------------------------------------------------------------------------
\* generate_ancillary: CorrectLandSeaMask and GenerateOrographyBandAncils

\* number of grid points of the ancillary fields
AncSize == 3

AncPoints == 1..AncSize

\* Land fractions are held in quarters: the integer q stands for q/4.
Whole(n) == 4 * n
Half == Whole(1) \div 2

\* the values an interpolated land mask may hold, from -1/4 to 5/4
LandQuarters == {-1, 0, 1, 2, 3, 4, 5}

\* numpy gives a mask array only if some element is masked; otherwise the
\* mask is the scalar nomask, and indexing with it selects no element.
MakeMask(cond) ==
    IF \E pt \in AncPoints : cond[pt]
    THEN [nomask |-> FALSE, at |-> cond]
    ELSE [nomask |-> TRUE, at |-> [pt \in AncPoints |-> FALSE]]

\* data[mask] = value
SetWhere(data, mask, value) ==
    IF mask.nomask THEN data
    ELSE [pt \in AncPoints |-> IF mask.at[pt] THEN value ELSE data[pt]]

\* np.ma.masked_less_equal(data, v).mask
masked_less_equal(data, v) == MakeMask([pt \in AncPoints |-> data[pt] <= v])

\* np.ma.masked_less(data, v).mask
masked_less(data, v) == MakeMask([pt \in AncPoints |-> data[pt] < v])

\* np.ma.masked_greater(data, v).mask
masked_greater(data, v) == MakeMask([pt \in AncPoints |-> data[pt] > v])

\* np.ma.masked_inside(data, v1, v2).mask: the closed interval, with the
\* ends swapped if given in reverse
masked_inside(data, v1, v2) ==
    LET lo == Min2(v1, v2)
        hi == Max2(v1, v2)
    IN  MakeMask([pt \in AncPoints |-> data[pt] >= lo /\ data[pt] <= hi])

\* the data of the cube after CorrectLandSeaMask.process
CorrectedData(data) ==
    LET mask_sea  == masked_less(data, Half)
        sea_set   == SetWhere(data, mask_sea, Whole(0))
        mask_land == masked_greater(sea_set, Whole(0))
    IN  SetWhere(sea_set, mask_land, Whole(1))

LSMInit ==
    /\ lsmIn \in [AncPoints -> LandQuarters]
    /\ lsmData = lsmIn
    /\ lsmState = "new"

\* the plugin is not in use
LSMIdle ==
    /\ lsmIn = <<>>
    /\ lsmData = <<>>
    /\ lsmState = "idle"

LSMFrame == UNCHANGED <<pcVars, cliVars, erVars, rbVars, rsVars, orogVars, procVars, fnVars, apVars, ddVars>>

\* CorrectLandSeaMask.process(standard_landmask)
CorrectLandSeaMask_process ==
    /\ lsmState = "new"
    /\ lsmData' = CorrectedData(lsmData)
    /\ lsmState' = "returned"
    /\ UNCHANGED lsmIn
    /\ LSMFrame

LSMNext == CorrectLandSeaMask_process

\* the orography heights and the threshold pairs tried
OrogValues == {0, 1, 2, 3, 4}
ThresholdPairs == {<<1, 3>>, <<0, 2>>, <<3, 1>>, <<5, 9>>}
Keys == {"land", "max_land_threshold"}

OrogArgs ==
    [orography  : [AncPoints -> OrogValues],
     landmask   : [AncPoints -> {0, 1}],
     key        : Keys,
     thresholds : ThresholdPairs]

NoMaskData == <<>>

\* np.ma.default_fill_value of an integer array
sea_fillvalue == 999999

\* sea_mask(landmask, orog_band): the band masked where the land mask is
\* zero, with the fill value put behind the mask
sea_mask(landmask, orog_band) ==
    LET mask == MakeMask([pt \in AncPoints |-> landmask[pt] = 0])
        data == SetWhere(orog_band, mask, sea_fillvalue)
    IN  [pt \in AncPoints |-> [masked |-> mask.at[pt], data |-> data[pt]]]

\* the orography band as integers, all zero when nothing is inside
orog_band(orography, thresholds) ==
    LET mask == masked_inside(orography, thresholds[1], thresholds[2])
    IN  IF mask.nomask
        THEN [pt \in AncPoints |-> 0]
        ELSE [pt \in AncPoints |-> IF mask.at[pt] THEN 1 ELSE 0]

OrogInit ==
    /\ orogIn \in OrogArgs
    /\ orogState = "new"
    /\ orogOut = NoMaskData
    /\ orogError = "none"

\* the plugin is not in use
OrogIdle ==
    /\ orogIn = [orography |-> <<>>, landmask |-> <<>>, key |-> "none",
                 thresholds |-> <<>>]
    /\ orogState = "idle"
    /\ orogOut = NoMaskData
    /\ orogError = "none"

OrogFrame == UNCHANGED <<pcVars, cliVars, erVars, rbVars, rsVars, lsmVars, procVars, fnVars, apVars, ddVars>>

\* GenerateOrographyBandAncils.gen_orography_masks(standard_orography,
\* standard_landmask, key, thresholds)
gen_orography_masks ==
    /\ orogState = "new"
    /\ IF orogIn.key = "land"
       THEN /\ orogOut' = sea_mask(orogIn.landmask,
                                   orog_band(orogIn.orography,
                                             orogIn.thresholds))
            /\ orogState' = "returned"
            /\ orogError' = "none"
       ELSE /\ orogOut' = NoMaskData
            /\ orogState' = "raised"
            /\ orogError' = "KeyError"
    /\ UNCHANGED orogIn
    /\ OrogFrame

OrogNext == gen_orography_masks

---------------------------------------------------------------------------
\* GenerateOrographyBandAncils.process

\* largest number of threshold pairs listed for one topographic type
MaxPairs == 2

\* the limits a list of bounds may hold: pairs, and one that is not a pair
LimitChoices == {<<1, 3>>, <<5, 9>>, <<1>>}

BoundLists ==
    UNION {[1..n -> LimitChoices] : n \in 0..MaxPairs}

\* thresholds_dict: a list of bounds for each of its topographic types
ThresholdDicts ==
    UNION {[K -> BoundLists] : K \in SUBSET Keys}

\* the orography and land mask fields process is tried on
ProcFields ==
    {[orography |-> [pt \in AncPoints |-> (pt + s) % 5],
      landmask  |-> [pt \in AncPoints |-> IF allLand THEN 1 ELSE pt % 2]] :
        s \in {0, 1}, allLand \in BOOLEAN}

\* the orders in which the items of a dictionary with keys K may be iterated
RECURSIVE Orders(_)
Orders(K) ==
    IF K = {} THEN {<<>>}
    ELSE UNION {{<<k>> \o rest : rest \in Orders(K \ {k})} : k \in K}

NoCubeList == <<>>

\* the outcome of one call of gen_orography_masks: the exception it raises,
\* or the mask cube it returns
MaskCubeFor(orography, landmask, key, limits) ==
    IF key # "land"
    THEN [error |-> "KeyError", cubes |-> <<>>]
    ELSE IF Len(limits) # 2
    THEN [error |-> "ValueError", cubes |-> <<>>]
    ELSE [error |-> "none",
          cubes |-> <<[key    |-> key,
                       bounds |-> limits,
                       data   |-> sea_mask(landmask,
                                           orog_band(orography, limits))]>>]

\* for limits in dict_bound: the cubes appended until a call raises
RECURSIVE BandLoop(_, _, _, _, _)
BandLoop(orography, landmask, key, dict_bound, cubelist) ==
    IF dict_bound = <<>>
    THEN [error |-> "none", cubes |-> cubelist]
    ELSE LET oro_band == MaskCubeFor(orography, landmask, key, Head(dict_bound))
         IN  IF oro_band.error # "none"
             THEN [error |-> oro_band.error, cubes |-> cubelist]
             ELSE BandLoop(orography, landmask, key, Tail(dict_bound),
                           cubelist \o oro_band.cubes)

\* a type with no bounds is passed over
TypeLoop_SkipEmpty(orography, landmask, dict, order, cubelist) ==
    LET present == SelectSeq(order, LAMBDA k : Len(dict[k]) > 0)
        step[i \in 0..Len(present)] ==
            IF i = 0 THEN [error |-> "none", cubes |-> cubelist]
            ELSE IF step[i - 1].error # "none" THEN step[i - 1]
            ELSE BandLoop(orography, landmask, present[i], dict[present[i]],
                          step[i - 1].cubes)
    IN  step[Len(present)]

\* for dict_key, dict_bound in thresholds_dict.items(), in the given order
RECURSIVE TypeLoop(_, _, _, _, _)
TypeLoop(orography, landmask, dict, order, cubelist) ==
    IF order = <<>>
    THEN [error |-> "none", cubes |-> cubelist]
    ELSE IF Len(dict[Head(order)]) = 0
    THEN [error |-> "ValueError", cubes |-> cubelist]
    ELSE LET bands == BandLoop(orography, landmask, Head(order),
                               dict[Head(order)], cubelist)
         IN  IF bands.error # "none"
             THEN bands
             ELSE TypeLoop(orography, landmask, dict, Tail(order), bands.cubes)

ProcInit ==
    /\ procIn \in [fields : ProcFields, thresholds_dict : ThresholdDicts]
    /\ procOrder = <<>>
    /\ procState = "new"
    /\ procOut = NoCubeList
    /\ procError = "none"

\* the plugin is not in use
ProcIdle ==
    /\ procIn = [fields |-> <<>>, thresholds_dict |-> <<>>]
    /\ procOrder = <<>>
    /\ procState = "idle"
    /\ procOut = NoCubeList
    /\ procError = "none"

ProcFrame == UNCHANGED <<pcVars, cliVars, erVars, rbVars, rsVars, lsmVars, orogVars, fnVars, apVars, ddVars>>

\* GenerateOrographyBandAncils.process(orography, landmask, thresholds_dict)
GenerateOrographyBandAncils_process ==
    /\ procState = "new"
    /\ \E order \in Orders(DOMAIN procIn.thresholds_dict) :
         LET run == TypeLoop(procIn.fields.orography, procIn.fields.landmask,
                             procIn.thresholds_dict, order, <<>>)
         IN  /\ procOrder' = order
             /\ IF run.error # "none"
                THEN /\ procState' = "raised"
                     /\ procError' = run.error
                     /\ procOut' = NoCubeList
                ELSE /\ procState' = "returned"
                     /\ procError' = "none"
                     /\ procOut' = run.cubes
    /\ UNCHANGED procIn
    /\ ProcFrame

ProcNext == GenerateOrographyBandAncils_process

---------------------------------------------------------------------------
\* argparser: safe_eval, ArgParser.parse_float_list_type and
\* ArgParser.parse_lead_time_list_type.  Text is a sequence of characters.

\* largest number of comma-separated items in a value
MaxItems == 2

Digits == <<"0", "1", "2", "3", "4", "5", "6", "7", "8", "9">>
IsDigit(c) == \E i \in 1..Len(Digits) : Digits[i] = c
DigitVal(c) == (CHOOSE i \in 1..Len(Digits) : Digits[i] = c) - 1

\* the number written by a sequence of digits
RECURSIVE NatOf(_)
NatOf(ds) ==
    IF ds = <<>> THEN 0
    ELSE 10 * NatOf(SubSeq(ds, 1, Len(ds) - 1)) + DigitVal(ds[Len(ds)])

RECURSIVE Pow10(_)
Pow10(n) == IF n = 0 THEN 1 ELSE 10 * Pow10(n - 1)

\* value.split(sep)
RECURSIVE Split(_, _)
Split(chars, sep) ==
    IF \A i \in 1..Len(chars) : chars[i] # sep
    THEN <<chars>>
    ELSE LET p == CHOOSE i \in 1..Len(chars) :
                      /\ chars[i] = sep
                      /\ \A j \in 1..(i - 1) : chars[j] # sep
         IN  <<SubSeq(chars, 1, p - 1)>>
             \o Split(SubSeq(chars, p + 1, Len(chars)), sep)

\* sep.join(items)
RECURSIVE Join(_, _)
Join(items, sep) ==
    IF Len(items) = 0 THEN <<>>
    ELSE IF Len(items) = 1 THEN items[1]
    ELSE items[1] \o <<sep>> \o Join(Tail(items), sep)

\* surrounding blanks are kept
Strip_None(chars) == chars

\* the text without leading and trailing blanks, as float() reads it
RECURSIVE Strip(_)
Strip(chars) ==
    IF chars # <<>> /\ Head(chars) = " " THEN Strip(Tail(chars))
    ELSE IF chars # <<>> /\ chars[Len(chars)] = " "
    THEN Strip(SubSeq(chars, 1, Len(chars) - 1))
    ELSE chars

\* float(text) for decimal text: blanks stripped, an optional sign, digits
\* with at most one point and at least one digit; ValueError otherwise
float(text) ==
    LET s      == Strip(text)
        signed == s # <<>> /\ Head(s) \in {"+", "-"}
        body   == IF signed THEN Tail(s) ELSE s
        points == {i \in 1..Len(body) : body[i] = "."}
        digits == SelectSeq(body, IsDigit)
        wellformed ==
            /\ \A i \in 1..Len(body) : IsDigit(body[i]) \/ body[i] = "."
            /\ Cardinality(points) <= 1
            /\ Len(digits) >= 1
        decimals == IF points = {} THEN 0
                    ELSE Len(body) - (CHOOSE i \in points : TRUE)
        sign == IF signed /\ Head(s) = "-" THEN -1 ELSE 1
    IN  IF wellformed
        THEN [error |-> "none", val |-> Rat(sign * NatOf(digits), Pow10(decimals))]
        ELSE [error |-> "ValueError", val |-> <<0, 1>>]

\* re.match(r"PT(\d+)H$", text): the digits of the group, or no match
LeadTimeMatch(text) ==
    LET n    == Len(text)
        run  == {d \in 0..n : \A i \in 3..(2 + d) : i <= n /\ IsDigit(text[i])}
        d    == CHOOSE x \in run : \A y \in run : y <= x
        h    == 3 + d
        matched ==
            /\ n >= 4
            /\ text[1] = "P"
            /\ text[2] = "T"
            /\ d >= 1
            /\ h <= n
            /\ text[h] = "H"
            /\ (h = n \/ (h + 1 = n /\ text[n] = "\n"))
    IN  IF matched
        THEN [matched |-> TRUE, group |-> SubSeq(text, 3, 2 + d)]
        ELSE [matched |-> FALSE, group |-> <<>>]

\* [f(item) for item in items], stopping at the first item f raises on
RECURSIVE MapItems(_, _, _)
MapItems(items, i, acc) ==
    IF i > Len(items) THEN [error |-> "none", val |-> acc]
    ELSE LET x == float(items[i])
         IN  IF x.error # "none"
             THEN [error |-> x.error, val |-> <<>>]
             ELSE MapItems(items, i + 1, Append(acc, x.val))

\* ArgParser.parse_float_list_type(value)
parse_float_list_type(value) ==
    LET floats == MapItems(Split(value, ","), 1, <<>>)
    IN  IF floats.error = "ValueError"
        THEN [error |-> "ArgumentTypeError", val |-> <<>>]
        ELSE floats

\* ArgParser.parse_lead_time_list_type(value): every turn of the loop over
\* the items matches the whole value
RECURSIVE LeadTimeLoop(_, _, _, _)
LeadTimeLoop(value, items, i, lead_times) ==
    IF i > Len(items) THEN [error |-> "none", val |-> lead_times]
    ELSE LET match == LeadTimeMatch(value)
         IN  IF ~match.matched
             THEN [error |-> "ArgumentTypeError", val |-> <<>>]
             ELSE LeadTimeLoop(value, items, i + 1,
                               Append(lead_times, float(match.group).val))

parse_lead_time_list_type(value) ==
    LeadTimeLoop(value, Split(value, ","), 1, <<>>)

\* the items tried for a list of floats, with the number each one writes
FloatItems ==
    {[text |-> <<"1", ".", "5">>, ok |-> TRUE,  val |-> <<3, 2>>],
     [text |-> <<"-", "2">>,      ok |-> TRUE,  val |-> <<-2, 1>>],
     [text |-> <<" ", "7">>,      ok |-> TRUE,  val |-> <<7, 1>>],
     [text |-> <<".", "2", "5">>, ok |-> TRUE,  val |-> <<1, 4>>],
     [text |-> <<"x", "1">>,      ok |-> FALSE, val |-> <<0, 1>>],
     [text |-> <<>>,              ok |-> FALSE, val |-> <<0, 1>>]}

\* the items tried for a list of lead times, with the hours each one writes
LeadTimeItems ==
    {[text |-> <<"P", "T", "1", "H">>,      ok |-> TRUE,  val |-> <<1, 1>>],
     [text |-> <<"P", "T", "2", "H">>,      ok |-> TRUE,  val |-> <<2, 1>>],
     [text |-> <<"P", "T", "1", "2", "H">>, ok |-> TRUE,  val |-> <<12, 1>>],
     [text |-> <<"P", "T", "H">>,           ok |-> FALSE, val |-> <<0, 1>>],
     [text |-> <<"1", "H">>,                ok |-> FALSE, val |-> <<0, 1>>]}

ItemLists(choices) ==
    UNION {[1..n -> choices] : n \in 1..MaxItems}

\* safe_eval: the names a command may use, the members a module may have
\* ("open" is a builtin and a member of no module), and the interpreters
EvalNames == {"add", "mul", "open"}
ModuleNames == {"add", "mul"}
Pythons == {2, 3}

\* a command is a name, or the expression
\* ().__class__.__bases__[0].__subclasses__ that starts from a literal
Commands ==
    {[kind |-> "name", name |-> n] : n \in EvalNames}
        \cup {[kind |-> "literal_path", name |-> "()"]}

NoCommand == [kind |-> "none", name |-> ""]

\* safe_dict = {k: module.__dict__.get(k, None) for k in allowed}
safe_dict(members, allowed) ==
    [k \in allowed |-> IF k \in members THEN "member:" \o k ELSE "None"]

\* safe_eval(command, module, allowed): eval with __builtins__ None.  A name
\* missing from safe_dict is looked up in the builtins: Python 3 subscripts
\* None (TypeError, caught and raised again), Python 2 uses an empty set of
\* builtins (NameError, not caught).
safe_eval(command, members, allowed, python) ==
    IF command.kind = "literal_path"
    THEN [error |-> "none", val |-> "builtin:object.__subclasses__"]
    ELSE IF command.name \in allowed
    THEN [error |-> "none", val |-> safe_dict(members, allowed)[command.name]]
    ELSE IF python = 3
    THEN [error |-> "TypeError", val |-> ""]
    ELSE [error |-> "NameError", val |-> ""]

FnInputs ==
    {[fn |-> "parse_float_list_type", items |-> its,
      value |-> Join([i \in 1..Len(its) |-> its[i].text], ","),
      command |-> NoCommand, members |-> {}, allowed |-> {}, python |-> 2] :
        its \in ItemLists(FloatItems)}
    \cup
    {[fn |-> "parse_lead_time_list_type", items |-> its,
      value |-> Join([i \in 1..Len(its) |-> its[i].text], ","),
      command |-> NoCommand, members |-> {}, allowed |-> {}, python |-> 2] :
        its \in ItemLists(LeadTimeItems)}
    \cup
    {[fn |-> "safe_eval", items |-> <<>>, value |-> <<>>,
      command |-> c, members |-> m, allowed |-> a, python |-> p] :
        c \in Commands, m \in SUBSET ModuleNames, a \in SUBSET EvalNames,
        p \in Pythons}

FnInit ==
    /\ fnIn \in FnInputs
    /\ fnState = "new"
    /\ fnOut = [error |-> "none", val |-> <<>>]

\* no function has been called
FnIdle ==
    /\ fnIn = [fn |-> "none"]
    /\ fnState = "idle"
    /\ fnOut = [error |-> "none", val |-> <<>>]

FnFrame == UNCHANGED <<pcVars, cliVars, erVars, rbVars, rsVars, lsmVars, orogVars, procVars, apVars, ddVars>>

\* the call returned or raised
FnDone(result) ==
    /\ fnOut' = result
    /\ fnState' = IF result.error = "none" THEN "returned" ELSE "raised"
    /\ UNCHANGED fnIn
    /\ FnFrame

parse_float_list_type_call ==
    /\ fnState = "new"
    /\ fnIn.fn = "parse_float_list_type"
    /\ FnDone(parse_float_list_type(fnIn.value))

parse_lead_time_list_type_call ==
    /\ fnState = "new"
    /\ fnIn.fn = "parse_lead_time_list_type"
    /\ FnDone(parse_lead_time_list_type(fnIn.value))

safe_eval_call ==
    /\ fnState = "new"
    /\ fnIn.fn = "safe_eval"
    /\ FnDone(safe_eval(fnIn.command, fnIn.members, fnIn.allowed, fnIn.python))

FnNext ==
    \/ parse_float_list_type_call
    \/ parse_lead_time_list_type_call
    \/ safe_eval_call

---------------------------------------------------------------------------
\* argparser: class ArgParser

\* the number of parsers constructed one after another
MaxBuilds == 2

\* An argument specification: its first flag, its length as a tuple, and the
\* 'type' entry of its keyword dictionary.
ArgSpec(flags, len, type) == [flags |-> flags, len |-> len, type |-> type]

\* the entries of ArgParser.CENTRALIZED_ARGUMENTS that are modelled, as the
\* class statement leaves them: 'radius' and 'radius_required' share a flag
\* and name their type by a string
CENTRALIZED_ARGUMENTS ==
    [n \in {"alpha_x", "radius", "radius_required"} |->
        IF n = "alpha_x"
        THEN ArgSpec("--alpha_x", 2, "none")
        ELSE ArgSpec("--radius", 2, "self.parse_float_list_type")]

COMPULSORY_ARGUMENTS ==
    [n \in {"profile", "profile_file"} |-> ArgSpec("--" \o n, 2, "none")]

\* the central_arguments lists a caller may pass: keys of the dictionary,
\* two keys with the same flag, and a name that is not a key
CentralLists ==
    {<<>>,
     <<"alpha_x">>,
     <<"radius">>,
     <<"alpha_x", "radius">>,
     <<"radius", "radius_required">>,
     <<"no_such_argument">>}

\* the specific argument specifications a caller may pass: a new flag, a
\* flag a central argument also has, and a specification of length 3
SpecificSpecs ==
    {ArgSpec("--foo", 2, "none"),
     ArgSpec("--alpha_x", 2, "none"),
     ArgSpec("--bar", 3, "none")}

\* an entry of an exclusive group: a name as the caller wrote it, later the
\* specification found for it, or None
GroupName(n) == [kind |-> "name", name |-> n]
GroupOf(names) == [i \in 1..Len(names) |-> GroupName(names[i])]

\* the exclusive_groups lists a caller may pass
GroupLists ==
    {<<>>,
     <<GroupOf(<<"alpha_x", "radius">>)>>,
     <<GroupOf(<<"radius">>)>>,
     <<GroupOf(<<"alpha_x", "no_such_argument">>)>>,
     <<GroupOf(<<"alpha_x">>), GroupOf(<<"alpha_x", "radius">>)>>}

ConstructorArgs ==
    [central_arguments  : CentralLists,
     specific_arguments : {<<>>} \cup {<<s>> : s \in SpecificSpecs},
     exclusive_groups   : GroupLists]

NoConstructorArgs ==
    [central_arguments |-> <<>>, specific_arguments |-> <<>>,
     exclusive_groups |-> <<>>]

\* the profiling options of a command line
ProfileOptions ==
    [profile : BOOLEAN,
     profile_file : {NoStr, Str("profile.out"), Str("")}]

NoProfileOptions == [profile |-> FALSE, profile_file |-> NoStr]

NoHook == [enabled |-> FALSE, dump_filename |-> NoStr]

\* new_group = [ArgParser.CENTRALIZED_ARGUMENTS.get(_) for _ in group]
NewGroup(group, registry) ==
    [i \in 1..Len(group) |->
        IF group[i].name \in DOMAIN registry
        THEN [kind |-> "spec", name |-> group[i].name]
        ELSE [kind |-> "None", name |-> group[i].name]]

\* exclusive_groups[index] = new_group, for every group of the caller's list
ReplacedGroups(groups, registry) ==
    [g \in 1..Len(groups) |-> NewGroup(groups[g], registry)]

\* argspec_groups: the mutually exclusive group of a flag, the last group
\* naming the flag winning; 0 stands for the parser itself
TargetOf(flag, groups, registry) ==
    LET naming == {g \in 1..Len(groups) :
                      \E i \in 1..Len(groups[g]) :
                          registry[groups[g][i].name].flags = flag}
    IN  IF naming = {} THEN 0
        ELSE CHOOSE g \in naming : \A h \in naming : h <= g

\* the 'type' handed to add_argument
ResolvedType(type) ==
    IF type = "self.parse_float_list_type"
    THEN "function:parse_float_list_type"
    ELSE type

\* every specification is added whatever its length
AddLoop_NoLengthCheck(argspec_list, i, groups, parser, registry) ==
    [error    |-> "none",
     parser   |-> [j \in 1..Len(argspec_list) |->
                      [flags  |-> argspec_list[j].spec.flags,
                       target |-> 0,
                       type   |-> ResolvedType(argspec_list[j].spec.type)]],
     registry |-> registry]

\* for argspec in argspec_list, from the i-th on: the length check, the type
\* stored back into the keyword dictionary (the dictionary of the class
\* when the specification came from it), and add_argument, which refuses a
\* flag the parser already has
RECURSIVE AddLoop(_, _, _, _, _)
AddLoop(argspec_list, i, groups, parser, registry) ==
    IF i > Len(argspec_list)
    THEN [error |-> "none", parser |-> parser, registry |-> registry]
    ELSE LET argspec == argspec_list[i].spec
             key     == argspec_list[i].key
             stored  == IF key \in DOMAIN registry
                        THEN [registry EXCEPT
                                 ![key].type = ResolvedType(argspec.type)]
                        ELSE registry
         IN  IF argspec.len # 2
             THEN [error |-> "AttributeError", parser |-> parser,
                   registry |-> registry]
             ELSE IF \E j \in 1..Len(parser) : parser[j].flags = argspec.flags
             THEN [error |-> "ArgumentError", parser |-> parser,
                   registry |-> stored]
             ELSE AddLoop(argspec_list, i + 1, groups,
                          Append(parser,
                                 [flags  |-> argspec.flags,
                                  target |-> TargetOf(argspec.flags, groups,
                                                      stored),
                                  type   |-> ResolvedType(argspec.type)]),
                          stored)

\* add_arguments(argspec_list, exclusive_groups): unpacking an entry that is
\* None raises TypeError before any argument is added
add_arguments(argspec_list, groups, registry) ==
    IF \E g \in 1..Len(groups) : \E i \in 1..Len(groups[g]) :
           groups[g][i].kind = "None"
    THEN [error |-> "TypeError", parser |-> <<>>, registry |-> registry]
    ELSE AddLoop(argspec_list, 1, groups, <<>>, registry)

\* list(ArgParser.COMPULSORY_ARGUMENTS.values()), in the order written
CompulsoryOrder == <<"profile", "profile_file">>

\* cli_arguments: compulsory + central + specific, each with the key of the
\* class dictionary it came from ("" for a specific one)
CliArguments(args, registry, compulsory) ==
    [i \in 1..Len(CompulsoryOrder) |->
        [key |-> "", spec |-> compulsory[CompulsoryOrder[i]]]]
    \o [i \in 1..Len(args.central_arguments) |->
        [key  |-> args.central_arguments[i],
         spec |-> registry[args.central_arguments[i]]]]
    \o [i \in 1..Len(args.specific_arguments) |->
        [key |-> "", spec |-> args.specific_arguments[i]]]

APInit ==
    /\ apRegistry = CENTRALIZED_ARGUMENTS
    /\ apCompulsory = COMPULSORY_ARGUMENTS
    /\ apIn = NoConstructorArgs
    /\ apGroups = <<>>
    /\ apParser = <<>>
    /\ apState = "none"
    /\ apError = "none"
    /\ apBuilds = 0
    /\ apCmd = NoProfileOptions
    /\ apHook = NoHook

\* the class is not in use
APIdle ==
    /\ apRegistry = <<>>
    /\ apCompulsory = <<>>
    /\ apIn = NoConstructorArgs
    /\ apGroups = <<>>
    /\ apParser = <<>>
    /\ apState = "idle"
    /\ apError = "none"
    /\ apBuilds = 0
    /\ apCmd = NoProfileOptions
    /\ apHook = NoHook

APFrame == UNCHANGED <<pcVars, cliVars, erVars, rbVars, rsVars, lsmVars, orogVars, procVars, fnVars, ddVars>>

\* ArgParser(central_arguments, specific_arguments, exclusive_groups)
ArgParser_init ==
    /\ apState \in {"none", "built", "raised", "parsed"}
    /\ apBuilds < MaxBuilds
    /\ apBuilds' = apBuilds + 1
    /\ \E args \in ConstructorArgs :
         /\ apIn' = args
         /\ IF \E i \in 1..Len(args.central_arguments) :
                   args.central_arguments[i] \notin DOMAIN apRegistry
            THEN /\ apState' = "raised"
                 /\ apError' = "KeyError"
                 /\ apGroups' = args.exclusive_groups
                 /\ apParser' = <<>>
                 /\ UNCHANGED apRegistry
            ELSE LET groups == ReplacedGroups(args.exclusive_groups, apRegistry)
                     added  == add_arguments(
                                   CliArguments(args, apRegistry,
                                                apCompulsory),
                                   groups, apRegistry)
                 IN  /\ apGroups' = groups
                     /\ apRegistry' = added.registry
                     /\ apError' = added.error
                     /\ IF added.error = "none"
                        THEN apState' = "built" /\ apParser' = added.parser
                        ELSE apState' = "raised" /\ apParser' = <<>>
    /\ apCmd' = NoProfileOptions
    /\ apHook' = NoHook
    /\ UNCHANGED apCompulsory
    /\ APFrame

\* parser.parse_args(argv) on a command line the parser accepts
ArgParser_parse_args ==
    /\ apState = "built"
    /\ \E options \in ProfileOptions :
         /\ apCmd' = options
         /\ apHook' =
              IF options.profile
                 \/ (options.profile_file.some /\ options.profile_file.val # "")
              THEN [enabled |-> TRUE, dump_filename |-> options.profile_file]
              ELSE NoHook
    /\ apState' = "parsed"
    /\ UNCHANGED <<apRegistry, apCompulsory, apIn, apGroups, apParser,
                   apError, apBuilds>>
    /\ APFrame

APNext ==
    \/ ArgParser_init
    \/ ArgParser_parse_args


----------------------------------------------------------------------------
\* utilities.spatial: DiscreteDifferenceBetweenAdjacentGridSquares, as its
\* tests use it.  A field is its lengths along y and x and its values, one
\* for each <<row, column>>.

\* largest length of an axis of a field
DdSize == 2

\* values of a grid square
DdValues == {1, 2, 5}

Grid(ny, nx) == (1..ny) \X (1..nx)

DdFields ==
    UNION {UNION {{[ny |-> ny, nx |-> nx, data |-> d] :
                      d \in [Grid(ny, nx) -> DdValues]} :
                  nx \in 1..DdSize} : ny \in 1..DdSize}

\* the field the tests set up
TestRows == <<<<1, 2, 3>>, <<2, 4, 6>>, <<5, 10, 15>>>>

TestField ==
    [ny |-> 3, nx |-> 3, data |-> [p \in Grid(3, 3) |-> TestRows[p[1]][p[2]]]]

\* a cube over y and x, or one with a leading axis of length one added
DdCubes ==
    {[ndim |-> n, field |-> f] : n \in {2, 3}, f \in DdFields \cup {TestField}}

NoDdCube == [ndim |-> 0, field |-> [ny |-> 0, nx |-> 0, data |-> <<>>]]

\* the squares first+1 .. first+count along an axis, renumbered from one
SliceAlong(f, axis, first, count) ==
    IF axis = "x"
    THEN [ny |-> f.ny, nx |-> count,
          data |-> [p \in Grid(f.ny, count) |-> f.data[<<p[1], p[2] + first>>]]]
    ELSE [ny |-> count, nx |-> f.nx,
          data |-> [p \in Grid(count, f.nx) |-> f.data[<<p[1] + first, p[2]>>]]]

AxisLength(f, axis) == IF axis = "x" THEN f.nx ELSE f.ny

Minus(a, b) ==
    [ny |-> a.ny, nx |-> a.nx, data |-> [p \in DOMAIN a.data |-> a.data[p] - b.data[p]]]

\* the difference along the axis: all but the first square minus all but the
\* last
calculate_discrete_difference(f, axis) ==
    Minus(SliceAlong(f, axis, 1, AxisLength(f, axis) - 1),
          SliceAlong(f, axis, 0, AxisLength(f, axis) - 1))

DiscreteDifference_YFirst(c) ==
    IF c.ndim # 2
    THEN [error |-> "InvalidCubeError", val |-> <<>>]
    ELSE [error |-> "none",
          val |-> <<calculate_discrete_difference(c.field, "y"),
                    calculate_discrete_difference(c.field, "x")>>]

DiscreteDifference(c) ==
    IF c.ndim # 2
    THEN [error |-> "InvalidCubeError", val |-> <<>>]
    ELSE [error |-> "none",
          val |-> <<calculate_discrete_difference(c.field, "x"),
                    calculate_discrete_difference(c.field, "y")>>]

DDInit ==
    /\ ddIn \in DdCubes
    /\ ddState = "new"
    /\ ddOut = [error |-> "none", val |-> <<>>]

\* the plugin is not in use
DDIdle ==
    /\ ddIn = NoDdCube
    /\ ddState = "idle"
    /\ ddOut = [error |-> "none", val |-> <<>>]

DDFrame == UNCHANGED <<pcVars, cliVars, erVars, rbVars, rsVars, lsmVars, orogVars, procVars, fnVars, apVars>>
\* plugin.process(cube)
DiscreteDifference_process ==
    /\ ddState = "new"
    /\ ddOut' = DiscreteDifference(ddIn)
    /\ ddState' = IF ddOut'.error = "none" THEN "returned" ELSE "raised"
    /\ UNCHANGED ddIn
    /\ DDFrame

DDNext == DiscreteDifference_process

InitPC ==
    PCInit /\ CLIIdle /\ ERIdle /\ RBIdle /\ RSIdle
    /\ LSMIdle /\ OrogIdle /\ ProcIdle /\ FnIdle /\ APIdle /\ DDIdle

InitCLI ==
    CLIInit /\ PCIdle /\ ERIdle /\ RBIdle /\ RSIdle
    /\ LSMIdle /\ OrogIdle /\ ProcIdle /\ FnIdle /\ APIdle /\ DDIdle

InitER ==
    ERInit /\ PCIdle /\ CLIIdle /\ RBIdle /\ RSIdle
    /\ LSMIdle /\ OrogIdle /\ ProcIdle /\ FnIdle /\ APIdle /\ DDIdle

InitRB ==
    RBInit /\ PCIdle /\ CLIIdle /\ ERIdle /\ RSIdle
    /\ LSMIdle /\ OrogIdle /\ ProcIdle /\ FnIdle /\ APIdle /\ DDIdle

InitRS ==
    RSInit /\ PCIdle /\ CLIIdle /\ ERIdle /\ RBIdle
    /\ LSMIdle /\ OrogIdle /\ ProcIdle /\ FnIdle /\ APIdle /\ DDIdle

InitProc ==
    ProcInit /\ PCIdle /\ CLIIdle /\ ERIdle /\ RBIdle /\ RSIdle /\ LSMIdle /\ OrogIdle /\ FnIdle /\ APIdle /\ DDIdle

InitFn ==
    FnInit /\ PCIdle /\ CLIIdle /\ ERIdle /\ RBIdle /\ RSIdle /\ LSMIdle /\ OrogIdle /\ ProcIdle /\ APIdle /\ DDIdle

InitAP ==
    APInit /\ PCIdle /\ CLIIdle /\ ERIdle /\ RBIdle /\ RSIdle /\ LSMIdle /\ OrogIdle /\ ProcIdle /\ FnIdle /\ DDIdle

InitDD ==
    DDInit /\ PCIdle /\ CLIIdle /\ ERIdle /\ RBIdle /\ RSIdle /\ LSMIdle /\ OrogIdle /\ ProcIdle /\ FnIdle /\ APIdle

SpecPC == InitPC /\ [][PCNext]_vars

SpecCLI == InitCLI /\ [][CLINext]_vars

SpecER == InitER /\ [][ERNext]_vars

SpecRB == InitRB /\ [][RBNext]_vars

InitLSM ==
    LSMInit /\ PCIdle /\ CLIIdle /\ ERIdle /\ RBIdle /\ RSIdle /\ OrogIdle /\ ProcIdle /\ FnIdle /\ APIdle /\ DDIdle

InitOrog ==
    OrogInit /\ PCIdle /\ CLIIdle /\ ERIdle /\ RBIdle /\ RSIdle /\ LSMIdle /\ ProcIdle /\ FnIdle /\ APIdle /\ DDIdle

SpecRS == InitRS /\ [][RSNext]_vars

SpecLSM == InitLSM /\ [][LSMNext]_vars

SpecOrog == InitOrog /\ [][OrogNext]_vars

SpecProc == InitProc /\ [][ProcNext]_vars

SpecFn == InitFn /\ [][FnNext]_vars

SpecAP == InitAP /\ [][APNext]_vars

SpecDD == InitDD /\ [][DDNext]_vars

---------------------------------------------------------------------------
\* Properties of PercentileConverter (checked under SpecPC).

Members(c) == Len(c.data[CHOOSE pt \in Points : TRUE])
Processed == Len(history) > 0
CoordOnCube == collapse_coord.names # <<>> /\ HasCoord(cube, collapse_coord.names[1])
Aggregators(cubes) == [i \in 1..Len(cubes) |-> cubes[i].aggregator]

\* C1: for every cube with at least 2 members, process returns exactly five
\* cubes, in the order percentiles, minimum, maximum, mean, standard deviation.
C1_ReturnsFiveFields ==
    (Processed /\ CoordOnCube /\ Members(cube) >= 2) =>
        /\ pcState = "returned"
        /\ Len(pdf_cubes) = 5
        /\ Aggregators(pdf_cubes) = <<"PERCENTILE", "MIN", "MAX", "MEAN", "STD_DEV">>

C1_Witness ==
    /\ pcState = "returned"
    /\ Members(cube) >= 2
    /\ Len(pdf_cubes) = 5

\* C2: the percentiles cube has, in place of the collapsed dimension, a
\* percentile dimension whose points are 5,10,20,25,30,40,50,60,70,75,80,90,95
\* ascending, whatever the data and the number of members.
C2_FixedPercentilePoints ==
    pcState = "returned" =>
        /\ pdf_cubes[1].points = <<5, 10, 20, 25, 30, 40, 50, 60, 70, 75, 80, 90, 95>>
        /\ pdf_cubes[1].dims = <<"percentile_over_realization", "latitude", "longitude">>
        /\ \A pt \in Points : Len(pdf_cubes[1].data[pt]) = 13
        /\ \A i \in 1..12 : pdf_cubes[1].points[i] < pdf_cubes[1].points[i + 1]

C2_Witness ==
    /\ pcState = "returned"
    /\ Members(cube) = 1
    /\ Len(pdf_cubes[1].points) = 13

\* the p-th percentile by linear interpolation between the order statistics
\* v (ascending): position q = p/100 * (n - 1), value
\* v[floor q] + (q - floor q) * (v[floor q + 1] - v[floor q]), indices from 0
LinearPercentile(v, p) ==
    LET n    == Len(v)
        fl   == (p * (n - 1)) \div 100
        frac == (p * (n - 1)) % 100
    IN  IF frac = 0 THEN Rat(v[fl + 1], 1)
        ELSE Rat(100 * v[fl + 1] + frac * (v[fl + 2] - v[fl + 1]), 100)

\* C3: every value of the percentiles cube is the linear interpolation between
\* the order statistics of the members at its point; members [0, 12, 24] give
\* 1.2, 2.4 and 4.8 for the 5th, 10th and 20th percentiles.
C3_LinearInterpolation ==
    pcState = "returned" =>
        \A pt \in Points :
            /\ \A i \in 1..Len(pdf_cubes[1].points) :
                   pdf_cubes[1].data[pt][i] =
                       LinearPercentile(Sort(cube.data[pt]), pdf_cubes[1].points[i])
            /\ cube.data[pt] = <<0, 12, 24>> =>
                   /\ pdf_cubes[1].data[pt][1] = <<6, 5>>
                   /\ pdf_cubes[1].data[pt][2] = <<12, 5>>
                   /\ pdf_cubes[1].data[pt][3] = <<24, 5>>

C3_Witness ==
    /\ pcState = "returned"
    /\ \E pt \in Points :
        /\ cube.data[pt] = <<24, 0, 12>>
        /\ pdf_cubes[1].data[pt][1] = <<6, 5>>

IsMember(r, vals) == \E i \in 1..Len(vals) : r = <<vals[i], 1>>

\* C4: at every point the 2nd, 3rd and 4th cubes hold the minimum, the maximum
\* and the arithmetic mean of the members (0, 24 and 12 for [0, 12, 24]), the
\* 5th holds what collapsing with STD_DEV gives, and none of the four keeps
\* the collapsed dimension.
C4_MinMaxMeanStd ==
    pcState = "returned" =>
        /\ \A pt \in Points :
            LET vals == cube.data[pt]
                n    == Len(vals)
            IN  /\ IsMember(pdf_cubes[2].data[pt], vals)
                /\ \A i \in 1..n : pdf_cubes[2].data[pt][1] <= vals[i]
                /\ IsMember(pdf_cubes[3].data[pt], vals)
                /\ \A i \in 1..n : pdf_cubes[3].data[pt][1] >= vals[i]
                /\ pdf_cubes[4].data[pt][1] * n = SumSeq(vals) * pdf_cubes[4].data[pt][2]
                /\ pdf_cubes[4].data[pt][2] > 0
                /\ pdf_cubes[5].data[pt] =
                       Collapsed(cube, "realization", "STD_DEV").data[pt]
                /\ vals = <<0, 12, 24>> =>
                       /\ pdf_cubes[2].data[pt] = <<0, 1>>
                       /\ pdf_cubes[3].data[pt] = <<24, 1>>
                       /\ pdf_cubes[4].data[pt] = <<12, 1>>
                /\ vals = <<1, 13, 25>> =>
                       /\ pdf_cubes[2].data[pt] = <<1, 1>>
                       /\ pdf_cubes[3].data[pt] = <<25, 1>>
                       /\ pdf_cubes[4].data[pt] = <<13, 1>>
        /\ \A k \in 2..5 : pdf_cubes[k].dims = <<"latitude", "longitude">>

C4_Witness ==
    /\ pcState = "returned"
    /\ \E pt \in Points :
        /\ cube.data[pt] = <<1, 13, 1, 1>>
        /\ pdf_cubes[4].data[pt] = <<4, 1>>
        /\ pdf_cubes[3].data[pt] = <<13, 1>>
        /\ pdf_cubes[2].data[pt] = <<1, 1>>

C6_NoSideEffects ==
    [][Len(history') > Len(history) =>
          /\ cube' = cube
          /\ collapse_coord' = collapse_coord
          /\ \A i \in 1..Len(history') : history'[i] = history'[1]]_vars

C6_Witness ==
    /\ Len(history) = 2
    /\ pcState = "returned"
    /\ history[1] = history[2]
    /\ \E pt \in Points : cube.data[pt] = <<24, 0>>

---------------------------------------------------------------------------
\* Properties of percentiles_to_realizations.main (checked under SpecCLI).

Done(step) == \E i \in 1..Len(trace) : trace[i] = step
Parsed == cliPc \notin {"parse_args", "idle"}

\* C7: a command line with both of --reordering and --rebadging, or with
\* neither, is reported as an error before any file is loaded and before any
\* processing step runs.
C7_ExactlyOneMethod ==
    (Parsed /\ cmd.reordering = cmd.rebadging) =>
        /\ cliPc = "done"
        /\ cliExit = "usage_error"
        /\ trace = <<>>
        /\ outWrites = 0

C7_Witness ==
    /\ cliExit = "usage_error"
    /\ ~cmd.reordering /\ ~cmd.rebadging
    /\ ~ValueError_(cmd)

\* a reordering-only option given with --rebadging, or the rebadging-only
\* option given with --reordering
OppositeOptions(c) ==
    \/ c.rebadging /\ ~c.reordering
          /\ (c.raw_forecast_filepath.some \/ c.random_ordering \/ c.random_seed.some)
    \/ c.reordering /\ ~c.rebadging /\ c.realization_numbers.some

\* C8: options of the opposite method (--raw_forecast_filepath,
\* --random_ordering or --random_seed with --rebadging, --realization_numbers
\* with --reordering) are a user error reported before the input file is
\* loaded and before any processing.
C8_OppositeOptionsRejected ==
    OppositeOptions(cmd) =>
        /\ cliPc = "done" => cliExit = "usage_error"
        /\ trace = <<>>

\* C9: --reordering without --raw_forecast_filepath is rejected as an
\* argument error before the input file is loaded and before resampling.
C9_RawForecastCompulsory ==
    (cmd.reordering /\ ~cmd.rebadging /\ ~cmd.raw_forecast_filepath.some) =>
        /\ cliPc = "done" => cliExit = "usage_error"
        /\ ~Done("load_input")
        /\ ~Done("resample")

\* C10: the output file is written at most once, only as the last step of a
\* run whose argument checking, loading, resampling and reordering or
\* rebadging all succeeded; a run that fails at any step writes no file.
C10_NoPartialSuccess ==
    /\ outWrites <= 1
    /\ outWrites = 1 =>
        /\ cliPc = "done" /\ cliExit = "ok" /\ cliError = "none"
        /\ ~MutexGroupError(cmd) /\ ~WrongArgs(ns)
        /\ \/ trace = <<"load_input", "resample", "load_raw", "reorder", "save">>
           \/ trace = <<"load_input", "resample", "rebadge", "save">>
    /\ (cliExit \in {"usage_error", "exception"} \/ cliError # "none") =>
        (outWrites = 0 /\ ~Done("save"))
    /\ cliExit = "ok" => outWrites = 1

C10_Witness ==
    /\ cliExit = "exception"
    /\ cliError = "rebadge"
    /\ Done("resample")
    /\ outWrites = 0

\* C11: in every successful run the resampler is applied to the loaded input
\* first, then exactly one of EnsembleReordering (with --reordering) and
\* RebadgePercentilesAsRealizations (with --rebadging); the saved cube is the
\* result of that second step.
C11_ResampleThenOneMethod ==
    cliExit = "ok" =>
        /\ cmd.reordering # cmd.rebadging
        /\ saved = <<"input", "ResamplePercentiles",
                     IF cmd.reordering THEN "EnsembleReordering"
                     ELSE "RebadgePercentilesAsRealizations">>
        /\ Done("reorder") # Done("rebadge")
        /\ Done("reorder") = cmd.reordering
        /\ trace[1] = "load_input" /\ trace[2] = "resample"

C11_Witness ==
    /\ cliExit = "ok"
    /\ cmd.reordering
    /\ saved = <<"input", "ResamplePercentiles", "EnsembleReordering">>

---------------------------------------------------------------------------
\* Properties of EnsembleReordering (checked under SpecER).

\* the values of s with their multiplicities
BagOf(s) == [v \in {s[i] : i \in 1..Len(s)} |->
                Cardinality({i \in 1..Len(s) : s[i] = v})]

\* C12: at every point the output values are a permutation of the
\* post-processed input values at that point: sorted(output) equals
\* sorted(post_processed), no value altered, added or lost.
C12_OutputIsPermutation ==
    \A c \in 1..Len(erOut) : \A pt \in Points :
        /\ Len(erOut[c][pt]) = Len(erIn.post[pt])
        /\ BagOf(erOut[c][pt]) = BagOf(erIn.post[pt])
        /\ Sort(erOut[c][pt]) = Sort(erIn.post[pt])

C12_Witness ==
    /\ Len(erOut) >= 1
    /\ erIn.post["y0x0"] = <<30, 10, 10>>
    /\ erIn.raw["y0x0"] = <<1, 3, 5>>
    /\ erOut[1]["y0x0"] = <<10, 10, 30>>

\* the ascending rank (from 1) of member m among the raw values, equal values
\* ranked by member index
RawRank(raw, m) ==
    1 + Cardinality({j \in 1..Len(raw) :
                        raw[j] < raw[m] \/ (raw[j] = raw[m] /\ j < m)})

---------------------------------------------------------------------------
\* Properties of RebadgePercentilesAsRealizations (checked under SpecRB).

\* C15: the output data equal the input data position for position, the axis
\* identity changes from percentile to realization, and without realization
\* numbers the identifiers are 0..n-1 in the order of the percentile axis.
C15_PureRelabelling ==
    rbState = "returned" =>
        /\ \A pt \in Points :
               /\ Len(rbOut.data[pt]) = Len(rbIn.field.data[pt])
               /\ \A m \in 1..Len(rbOut.data[pt]) :
                      rbOut.data[pt][m] = rbIn.field.data[pt][m]
        /\ rbIn.field.axis = "percentile"
        /\ rbOut.axis = "realization"
        /\ Len(rbOut.coord) = Len(rbIn.field.coord)
        /\ ~rbIn.realization_numbers.some =>
               \A m \in 1..Len(rbOut.coord) : rbOut.coord[m] = m - 1

C15_Witness ==
    /\ rbState = "returned"
    /\ ~rbIn.realization_numbers.some
    /\ rbIn.field.coord = <<10, 50, 90>>
    /\ rbOut.coord = <<0, 1, 2>>
    /\ rbOut.data["y0x0"] = <<30, 10, 20>>

\* C16: a realization-number list whose length differs from the number of
\* slices along the percentile axis makes process fail with a count-mismatch
\* error and no field is produced.
C16_CountMismatchFails ==
    (rbState # "new" /\ rbIn.realization_numbers.some
        /\ Len(rbIn.realization_numbers.val) # Len(rbIn.field.coord)) =>
        /\ rbState = "raised"
        /\ rbError = "ValueError"
        /\ rbOut = NoField

C16_Witness ==
    /\ rbState = "raised"
    /\ Len(rbIn.realization_numbers.val) = 3
    /\ Len(rbIn.field.coord) = 2

---------------------------------------------------------------------------
\* Properties of ResamplePercentiles (checked under SpecRS).

\* C17: when an interpolated value lies outside the valid bounds the call
\* fails if ecc_bounds_warning is false; if it is true the call succeeds, each
\* value below the lower bound becomes the lower bound, each value above the
\* upper bound becomes the upper bound, and every other value is as computed.
C17_BoundsPolicy ==
    (rsState # "new" /\ rsRaw # NoData) =>
        /\ ((\E pt \in Points : \E k \in 1..Len(rsRaw[pt]) :
                \/ rsRaw[pt][k][1] < ValidBounds.lo * rsRaw[pt][k][2]
                \/ rsRaw[pt][k][1] > ValidBounds.hi * rsRaw[pt][k][2])
             /\ ~rsIn.ecc_bounds_warning) =>
               /\ rsState = "raised"
               /\ rsError = "ValueError"
               /\ rsOut = NoField
        /\ rsIn.ecc_bounds_warning =>
               /\ rsState = "returned"
               /\ \A pt \in Points :
                      /\ Len(rsOut.data[pt]) = Len(rsRaw[pt])
                      /\ \A k \in 1..Len(rsRaw[pt]) :
                           LET x == rsRaw[pt][k]
                               y == rsOut.data[pt][k]
                           IN  /\ x[1] < ValidBounds.lo * x[2] =>
                                      y = <<ValidBounds.lo, 1>>
                               /\ x[1] > ValidBounds.hi * x[2] =>
                                      y = <<ValidBounds.hi, 1>>
                               /\ (/\ x[1] >= ValidBounds.lo * x[2]
                                   /\ x[1] <= ValidBounds.hi * x[2]) => y = x

C17_Witness ==
    /\ rsState = "returned"
    /\ rsIn.ecc_bounds_warning
    /\ rsWarned
    /\ rsIn.sampling = "quantile"
    /\ rsRaw["y0x0"] = <<<<-20, 1>>, <<50, 1>>, <<120, 1>>>>
    /\ rsOut.data["y0x0"] = <<<<0, 1>>, <<50, 1>>, <<100, 1>>>>
    /\ rsRaw["y0x1"] = <<<<40, 1>>, <<40, 1>>, <<40, 1>>>>
    /\ rsOut.data["y0x1"] = rsRaw["y0x1"]

\* C18: quantile sampling targets exactly n percentiles, the k-th (from 0)
\* being 100*(k+0.5)/n: evenly spaced, strictly ascending, strictly between 0
\* and 100; n is the requested count, or without one the number of percentile
\* values on the input axis.
C18_QuantileTargets ==
    (rsState = "returned" /\ rsIn.sampling = "quantile") =>
        LET n == IF rsIn.count_of_percentiles.some
                 THEN rsIn.count_of_percentiles.val
                 ELSE Len(rsIn.field.coord)
            t == rsOut.coord
        IN  /\ Len(t) = n
            /\ \A pt \in Points : Len(rsOut.data[pt]) = n
            /\ \A k \in 0..(n - 1) :
                   /\ t[k + 1][2] > 0
                   /\ t[k + 1][1] * 2 * n = 100 * (2 * k + 1) * t[k + 1][2]
                   /\ t[k + 1][1] > 0
                   /\ t[k + 1][1] < 100 * t[k + 1][2]
            /\ \A k \in 1..(n - 1) :
                   /\ t[k][1] * t[k + 1][2] < t[k + 1][1] * t[k][2]
                   /\ n * (t[k + 1][1] * t[k][2] - t[k][1] * t[k + 1][2])
                          = 100 * t[k][2] * t[k + 1][2]

C18_Witness ==
    /\ rsState = "returned"
    /\ rsIn.sampling = "quantile"
    /\ ~rsIn.count_of_percentiles.some
    /\ Len(rsIn.field.coord) = 3
    /\ rsOut.coord = <<<<50, 3>>, <<50, 1>>, <<250, 3>>>>

---------------------------------------------------------------------------
\* Properties of CorrectLandSeaMask (checked under SpecLSM).

\* C19: process sets each point whose value is below one half to False (0)
\* and each point whose value is one half or more to True (1), so every point
\* of the returned mask holds 0 or 1.
C19_RoundsToBoolean ==
    lsmState = "returned" =>
        \A pt \in AncPoints :
            /\ 2 * lsmIn[pt] < Whole(1) => lsmData[pt] = Whole(0)
            /\ 2 * lsmIn[pt] >= Whole(1) => lsmData[pt] = Whole(1)
            /\ lsmData[pt] \in {Whole(0), Whole(1)}

C19_Witness ==
    /\ lsmState = "returned"
    /\ lsmIn[1] = 2
    /\ lsmData[1] = Whole(1)
    /\ lsmIn[2] = -1
    /\ lsmData[2] = Whole(0)
    /\ lsmIn[3] = 5
    /\ lsmData[3] = Whole(1)

---------------------------------------------------------------------------
\* Properties of gen_orography_masks (checked under SpecOrog).

\* C20: for key 'land' and thresholds [lower, upper] the mask returned is
\* masked at every sea point and at every land point is 1 if the orography
\* lies between the thresholds and 0 otherwise; with thresholds [1, 3], as in
\* the documented example, land points of orography 1 and 4 get 0 and land
\* points of orography 2 get 1.
C20_BandMask ==
    (/\ orogState = "returned"
     /\ orogIn.key = "land"
     /\ orogIn.thresholds[1] <= orogIn.thresholds[2]) =>
        \A pt \in AncPoints :
            LET h     == orogIn.orography[pt]
                lower == orogIn.thresholds[1]
                upper == orogIn.thresholds[2]
            IN  /\ orogIn.landmask[pt] = 0 => orogOut[pt].masked
                /\ orogIn.landmask[pt] # 0 =>
                     /\ ~orogOut[pt].masked
                     /\ orogOut[pt].data \in {0, 1}
                     /\ (h > lower /\ h < upper) => orogOut[pt].data = 1
                     /\ (h < lower \/ h > upper) => orogOut[pt].data = 0
                     /\ orogIn.thresholds = <<1, 3>> =>
                          /\ h \in {1, 4} => orogOut[pt].data = 0
                          /\ h = 2 => orogOut[pt].data = 1

---------------------------------------------------------------------------
\* Properties of GenerateOrographyBandAncils.process (checked under SpecProc).

\* the (type, limits) pairs of a dictionary in the order they are iterated
RECURSIVE PairsInOrder(_, _)
PairsInOrder(order, dict) ==
    IF order = <<>> THEN <<>>
    ELSE [i \in 1..Len(dict[Head(order)]) |->
             <<Head(order), dict[Head(order)][i]>>]
         \o PairsInOrder(Tail(order), dict)

\* a type process cannot make cubes for
Offending(dict, k) ==
    \/ dict[k] = <<>>
    \/ k # "land"
    \/ \E i \in 1..Len(dict[k]) : Len(dict[k][i]) # 2

\* C21 as stated: ValueError whenever some type has an empty list of bounds,
\* KeyError whenever some type is not a known key, otherwise one cube per
\* threshold pair (each a pair of limits) in iteration order; on an error no
\* cube list is returned.
C21_ProcessErrors ==
    procState # "new" =>
        LET dict == procIn.thresholds_dict
        IN  /\ (\E k \in DOMAIN dict : dict[k] = <<>>) =>
                   procState = "raised" /\ procError = "ValueError"
            /\ (\E k \in DOMAIN dict : k # "land") =>
                   procState = "raised" /\ procError = "KeyError"
            /\ (\A k \in DOMAIN dict :
                    /\ dict[k] # <<>>
                    /\ k = "land"
                    /\ \A i \in 1..Len(dict[k]) : Len(dict[k][i]) = 2) =>
                   /\ procState = "returned"
                   /\ Len(procOut) = Len(PairsInOrder(procOrder, dict))
            /\ procState = "raised" => procOut = NoCubeList

\* C21 (amended): the first type in iteration order that is empty, unknown or
\* holds limits that are not a pair decides the exception: ValueError for an
\* empty list whatever the key, else KeyError for an unknown key, else
\* ValueError; no cube list is returned.  With no such type process returns
\* one cube per threshold pair, in iteration order.
C21_FirstOffenderDecides ==
    procState # "new" =>
        LET dict  == procIn.thresholds_dict
            pairs == PairsInOrder(procOrder, dict)
            bad   == {i \in 1..Len(procOrder) : Offending(dict, procOrder[i])}
        IN  IF bad = {}
            THEN /\ procState = "returned"
                 /\ procError = "none"
                 /\ Len(procOut) = Len(pairs)
                 /\ \A i \in 1..Len(pairs) :
                        /\ procOut[i].key = pairs[i][1]
                        /\ procOut[i].bounds = pairs[i][2]
            ELSE LET k == procOrder[CHOOSE i \in bad : \A j \in bad : i <= j]
                 IN  /\ procState = "raised"
                     /\ procOut = NoCubeList
                     /\ procError = IF dict[k] = <<>> THEN "ValueError"
                                    ELSE IF k # "land" THEN "KeyError"
                                    ELSE "ValueError"

C21_Witness ==
    /\ procState = "raised"
    /\ procError = "KeyError"
    /\ procOrder = <<"max_land_threshold", "land">>
    /\ procIn.thresholds_dict["land"] = <<>>
    /\ procIn.thresholds_dict["max_land_threshold"] = <<<<1, 3>>>>

---------------------------------------------------------------------------
\* Properties of the argparser functions (checked under SpecFn).

Called(fn) == fnIn.fn = fn /\ fnState # "new"

\* C22: safe_eval returns the requested object when the command names a
\* member of the allowed list that exists in the module, raises TypeError
\* whenever the requested component is not in the allowed list or does not
\* exist in the module, and never returns a Python builtin.
C22_SafeEval ==
    Called("safe_eval") =>
        /\ (/\ fnIn.command.kind = "name"
            /\ fnIn.command.name \in fnIn.allowed
            /\ fnIn.command.name \in fnIn.members) =>
               /\ fnState = "returned"
               /\ fnOut.val = "member:" \o fnIn.command.name
        /\ (/\ fnIn.command.kind = "name"
            /\ (\/ fnIn.command.name \notin fnIn.allowed
                \/ fnIn.command.name \notin fnIn.members)) =>
               /\ fnState = "raised"
               /\ fnOut.error = "TypeError"
        /\ fnState = "returned" =>
               fnOut.val \in {"member:" \o n : n \in ModuleNames}

\* the numbers written by the items, in the order given
ItemValues(items) == [i \in 1..Len(items) |-> items[i].val]

\* C23: parse_lead_time_list_type returns the hours of the items PTxH, one
\* per item in the order given, and raises argparse.ArgumentTypeError if any
\* item is not of that form.
C23_LeadTimeList ==
    Called("parse_lead_time_list_type") =>
        /\ (\A i \in 1..Len(fnIn.items) : fnIn.items[i].ok) =>
               /\ fnState = "returned"
               /\ fnOut.val = ItemValues(fnIn.items)
        /\ (\E i \in 1..Len(fnIn.items) : ~fnIn.items[i].ok) =>
               /\ fnState = "raised"
               /\ fnOut.error = "ArgumentTypeError"

---------------------------------------------------------------------------
\* Properties of ArgParser (checked under SpecAP).

\* a parser came out of the latest construction
Built == apState \in {"built", "parsed"}

\* the constructor got as far as calling add_arguments
AddArgumentsCalled ==
    apState \in {"built", "parsed", "raised"} /\ apError # "KeyError"

\* the specifications handed to add_arguments, as the class statement and
\* the caller wrote them
SpecsGiven ==
    <<COMPULSORY_ARGUMENTS["profile"], COMPULSORY_ARGUMENTS["profile_file"]>>
    \o [i \in 1..Len(apIn.central_arguments) |->
           CENTRALIZED_ARGUMENTS[apIn.central_arguments[i]]]
    \o apIn.specific_arguments

\* the number of arguments of the parser with a flag and a target
TimesAdded(flag, target) ==
    Cardinality({j \in 1..Len(apParser) :
                    apParser[j].flags = flag /\ apParser[j].target = target})

\* C25: every ArgParser instance carries --profile and --profile_file, and
\* parse_args enables the profiling hook exactly when --profile or
\* --profile_file was supplied, passing it the profile file name.
C25_ProfileOptions ==
    /\ Built => TimesAdded("--profile", 0) = 1
                /\ TimesAdded("--profile_file", 0) = 1
    /\ apState = "parsed" =>
         /\ apHook.enabled <=> (apCmd.profile \/ apCmd.profile_file.some)
         /\ apHook.enabled => apHook.dump_filename = apCmd.profile_file

C29_NoOutsideEffect ==
    apState \in {"built", "parsed", "raised"} =>
        /\ apRegistry = CENTRALIZED_ARGUMENTS
        /\ apCompulsory = COMPULSORY_ARGUMENTS
        /\ apGroups = apIn.exclusive_groups

\* C30: when a parser is built with exclusive groups, every argument named
\* in a group is added exactly once, as a member of that group's mutually
\* exclusive group, and every other argument exactly once directly to the
\* parser.
C30_GroupMembership ==
    (Built /\ apIn.exclusive_groups # <<>>) =>
        LET groups == apIn.exclusive_groups
            grouped == UNION {{CENTRALIZED_ARGUMENTS[groups[g][i].name].flags :
                                  i \in 1..Len(groups[g])} :
                              g \in 1..Len(groups)}
        IN  /\ \A g \in 1..Len(groups) : \A i \in 1..Len(groups[g]) :
                   LET flag == CENTRALIZED_ARGUMENTS[groups[g][i].name].flags
                   IN  /\ TimesAdded(flag, g) = 1
                       /\ TimesAdded(flag, 0) = 0
            /\ \A i \in 1..Len(SpecsGiven) :
                   SpecsGiven[i].flags \notin grouped =>
                       TimesAdded(SpecsGiven[i].flags, 0) = 1

----------------------------------------------------------------------------
\* DiscreteDifferenceBetweenAdjacentGridSquares.process

DdCalled == ddState \in {"returned", "raised"}

\* C26: for a cube of two dimensions process returns two fields, the x
\* differences first and the y differences second; each value is the next
\* square along the axis minus the square itself, the field is one shorter
\* along its axis and as long as the input along the other.  A cube of more
\* than two dimensions is rejected with InvalidCubeError.
C26_DiscreteDifference ==
    DdCalled =>
        LET f == ddIn.field
        IN  /\ ddIn.ndim = 2 =>
                /\ ddState = "returned"
                /\ Len(ddOut.val) = 2
                /\ LET dx == ddOut.val[1]
                       dy == ddOut.val[2]
                   IN  /\ dx.ny = f.ny /\ dx.nx = f.nx - 1
                       /\ DOMAIN dx.data = Grid(f.ny, f.nx - 1)
                       /\ \A i \in 1..f.ny : \A j \in 1..(f.nx - 1) :
                              dx.data[<<i, j>>] = f.data[<<i, j + 1>>] - f.data[<<i, j>>]
                       /\ dy.ny = f.ny - 1 /\ dy.nx = f.nx
                       /\ DOMAIN dy.data = Grid(f.ny - 1, f.nx)
                       /\ \A i \in 1..(f.ny - 1) : \A j \in 1..f.nx :
                              dy.data[<<i, j>>] = f.data[<<i + 1, j>>] - f.data[<<i, j>>]
            /\ ddIn.ndim > 2 =>
                /\ ddState = "raised"
                /\ ddOut.error = "InvalidCubeError"

\* the field of the tests gives the x differences 1 1 / 2 2 / 5 5 and the y
\* differences 1 2 3 / 3 6 9
C26_Witness ==
    /\ ddState = "returned"
    /\ ddIn = [ndim |-> 2, field |-> TestField]
    /\ ddOut.val[1] = [ny |-> 3, nx |-> 2,
                       data |-> [p \in Grid(3, 2) |-> <<<<1, 1>>, <<2, 2>>, <<5, 5>>>>[p[1]][p[2]]]]
    /\ ddOut.val[2] = [ny |-> 2, nx |-> 3,
                       data |-> [p \in Grid(2, 3) |-> <<<<1, 2, 3>>, <<3, 6, 9>>>>[p[1]][p[2]]]]

----------------------------------------------------------------------------
\* percentiles_to_realizations.main: the options of the resampler

\* C27: main gives the resampler its options as they were given on the
\* command line: ecc_bounds_warning is true exactly when the flag was given,
\* the sampling method is the one given or 'quantile' when there was none,
\* and the number of percentiles is the integer given or absent when there
\* was none.  The resampler is called once for the whole field, so the values
\* are the same for every point of it.
C27_ResamplerOptions ==
    /\ Len(resample_calls) <= 1
    /\ "resample" \in {trace[i] : i \in 1..Len(trace)} \/ cliError = "resample"
           => Len(resample_calls) = 1
    /\ \A i \in 1..Len(resample_calls) :
           LET given == resample_calls[i]
           IN  /\ given.ecc_bounds_warning = cmd.ecc_bounds_warning
               /\ given.sampling = IF cmd.sampling_method.some
                                   THEN cmd.sampling_method.val ELSE "quantile"
               /\ given.no_of_percentiles.some = cmd.no_of_percentiles.some
               /\ cmd.no_of_percentiles.some =>
                      given.no_of_percentiles.val = IntOf(cmd.no_of_percentiles.val)

\* a run with --ecc_bounds_warning --sampling_method random
\* --no_of_percentiles 3 has called the resampler with these values
C27_Witness ==
    /\ cmd.ecc_bounds_warning
    /\ cmd.sampling_method = Str("random")
    /\ cmd.no_of_percentiles = Str("3")
    /\ resample_calls = <<[ecc_bounds_warning |-> TRUE,
                           no_of_percentiles  |-> Int_(3),
                           sampling           |-> "random"]>>

====
